---------------------------- MODULE Spec2Model ----------------------------
(***************************************************************************)
(* A model of eight parts of element-call:                                 *)
(*   - useLoadGroupCall   (src/src/room/useLoadGroupCall.ts)               *)
(*   - GroupCallView      (src/src/room/GroupCallView.tsx)                 *)
(*   - useActiveFocus     (src/src/room/useActiveFocus.ts)                 *)
(*   - getUrlParams       (src/src/UrlParams.ts)                           *)
(*   - participatingMembers of GroupCallView                               *)
(*   - CallList           (src/src/home/CallList.tsx, src/src/UrlParams.ts)*)
(*   - ErrorView          (src/src/FullScreenView.tsx)                     *)
(*   - the skip-lobby effect of GroupCallView                              *)
(* Each part has its own variables, initial predicate and next-state       *)
(* relation (SpecLoad, SpecView, SpecFocus, SpecUrl, SpecMembers,          *)
(* SpecList, SpecError, SpecSkipLobby); a part that is not running keeps   *)
(* its variables at their idle values.                                     *)
(***************************************************************************)
EXTENDS Integers, Sequences, FiniteSets, TLC

VARIABLES
    \* ---- useLoadGroupCall ----
    deps,          \* the hook's inputs: client, roomIdOrAlias, viaServers, e2eeEnabled
    state,         \* the GroupCallStatus held by useState
    effectDue,     \* the effect has to run (after mount, or after an input changed)
    runs,          \* one record per run of the effect, in starting order
    syncState,     \* client -> what client.getSyncState() returns
    onSync,        \* the runs whose onSync listener is registered on their client
    localStorage,  \* set of <<key, value>> entries written by setLocalStorageItem
    \* ---- GroupCallView ----
    props,         \* isPasswordlessUser, confineToRoom, preload, skipLobby
    env,           \* widget (embedded), analyticsEnabled, e2eeSupported
    e2ee,          \* e2eeEnabled, isRoomE2EE, e2eeSharedKey (what the three hooks return)
    mounted,       \* the view has rendered once and its effects have run
    rtc,           \* the session's join state: "out", "joining", "joined", "leaving"
    left,          \* useState(false)
    leaveError,    \* useState<Error | undefined>(undefined)
    leaves,        \* one record per call of onLeave: where it stands and what it did
    hostLog,       \* what the widget host has been sent, in order
    listeners,     \* how many listeners the view has registered per host action
    hostActions,   \* one record per host action a listener handled: what it did
    \* ---- useActiveFocus ----
    memberships,   \* rtcSession.memberships, oldest first
    focusState,    \* the value held by useState (the last one set)
    activeFocus,   \* the value the last render returned; the registered
                   \* onMembershipsChanged closes over it
    newActiveFocus,\* what getActiveFocus returned when it was last called
    focusOp,       \* the hook's last step: "none", "mount", "notified", "render"
    \* ---- UrlParams ----
    location,      \* the URL as it was put together: the pairs of its two queries
    search,        \* window.location.search, a sequence of characters and words
    hash,          \* window.location.hash
    urlParams,     \* what getUrlParams returned
    warned,        \* the parameter names and messages logger.warn was called for
    roomIdentifier,\* the pathname getRoomIdentifierFromUrl was given, and its result
    editedHash,    \* the transform editFragmentQuery was given, and its result
    \* ---- participatingMembers ----
    sessionMemberships,   \* what useMatrixRTCSessionMemberships(rtcSession) returns
    participatingMembers, \* what the useMemo of lines 116-127 holds
    \* ---- CallList ----
    rooms,         \* the rooms prop
    callList,      \* which CallList was rendered, and the elements of its list
    \* ---- ErrorView ----
    errorView,     \* mounted, the error prop, the effect's last dependencies,
                   \* and the number of renders so far
    created,       \* how many Error objects have been created
    reported,      \* the calls of logger.error and Sentry.captureException
    \* ---- the skip-lobby effect ----
    skipProps,     \* skipLobby, preload, and whether a widget host is present
    skipEffect,    \* whether the effect has run, and whether onJoin is registered
    setups,        \* the calls of defaultDeviceSetup: the request, and where it stands
    media,         \* the mute states, the selected devices, the warnings logged
    entered        \* the calls of enterRTCSession, and what they found

loadVars == <<deps, state, effectDue, runs, syncState, onSync, localStorage>>

viewVars == <<props, env, e2ee, mounted, rtc, left, leaveError, leaves, hostLog,
              listeners, hostActions>>

focusVars == <<memberships, focusState, activeFocus, newActiveFocus, focusOp>>

urlVars == <<location, search, hash, urlParams, warned, roomIdentifier, editedHash>>

membersVars == <<sessionMemberships, participatingMembers>>

listVars == <<rooms, callList>>

errorVars == <<errorView, created, reported>>

skipLobbyVars == <<skipProps, skipEffect, setups, media, entered>>

vars == <<loadVars, viewVars, focusVars, urlVars, membersVars, listVars, errorVars,
          skipLobbyVars>>

\* What an action of one part leaves unchanged: the variables of the other parts.
notLoad == <<viewVars, focusVars, urlVars, membersVars, listVars, errorVars, skipLobbyVars>>

notView == <<loadVars, focusVars, urlVars, membersVars, listVars, errorVars, skipLobbyVars>>

notFocus == <<loadVars, viewVars, urlVars, membersVars, listVars, errorVars, skipLobbyVars>>

notUrl == <<loadVars, viewVars, focusVars, membersVars, listVars, errorVars, skipLobbyVars>>

notMembers == <<loadVars, viewVars, focusVars, urlVars, listVars, errorVars, skipLobbyVars>>

notList == <<loadVars, viewVars, focusVars, urlVars, membersVars, errorVars, skipLobbyVars>>

notError == <<loadVars, viewVars, focusVars, urlVars, membersVars, listVars, skipLobbyVars>>

notSkipLobby == <<loadVars, viewVars, focusVars, urlVars, membersVars, listVars, errorVars>>

(***************************************************************************)
(*                          useLoadGroupCall                               *)
(***************************************************************************)

\* The view's variables while no GroupCallView is mounted in the behaviour.
IdleView ==
    /\ props = [isPasswordlessUser |-> FALSE, confineToRoom |-> FALSE,
                preload |-> FALSE, skipLobby |-> FALSE]
    /\ env = [widget |-> FALSE, analyticsEnabled |-> FALSE, e2eeSupported |-> TRUE]
    /\ e2ee = [e2eeEnabled |-> FALSE, isRoomE2EE |-> FALSE, e2eeSharedKey |-> "undefined"]
    /\ mounted = FALSE
    /\ rtc = "out"
    /\ left = FALSE
    /\ leaveError = "undefined"
    /\ leaves = <<>>
    /\ hostLog = <<>>
    /\ listeners = [JoinCall |-> 0, HangupCall |-> 0]
    /\ hostActions = <<>>

\* The focus hook's variables while no useActiveFocus is mounted in the behaviour.
IdleFocus ==
    /\ memberships = <<>>
    /\ focusState = [undefined |-> TRUE]
    /\ activeFocus = [undefined |-> TRUE]
    /\ newActiveFocus = [undefined |-> TRUE]
    /\ focusOp = "none"

\* The URL resolver's variables while no URL is resolved in the behaviour.
IdleUrl ==
    /\ location = [searchPairs |-> <<>>, hasSearch |-> FALSE, hashPrefix |-> <<>>,
                   hashPairs |-> <<>>, hasHashQuery |-> FALSE]
    /\ search = <<>>
    /\ hash = <<>>
    /\ urlParams = [resolved |-> FALSE]
    /\ warned = {}
    /\ roomIdentifier = [resolved |-> FALSE]
    /\ editedHash = [resolved |-> FALSE]

\* The participant list's variables while no memberships are rendered.
IdleMembers ==
    /\ sessionMemberships = <<>>
    /\ participatingMembers = [rendered |-> FALSE]

\* The call list's variables while no CallList is rendered.
IdleList ==
    /\ rooms = <<>>
    /\ callList = [rendered |-> FALSE]

\* The error view's variables while no ErrorView is rendered.
IdleError ==
    /\ errorView = [mounted |-> FALSE, error |-> [none |-> TRUE],
                    deps |-> [none |-> TRUE], renders |-> 0]
    /\ created = 0
    /\ reported = <<>>

\* The mute states and selected devices before any default-device setup.
InitialMedia ==
    [audio |-> "unset", video |-> "unset",
     audioInput |-> "default", videoInput |-> "default", warned |-> {}]

\* The effect's variables while no skip-lobby effect runs in the behaviour.
IdleSkipLobby ==
    /\ skipProps = [skipLobby |-> FALSE, preload |-> FALSE, widget |-> FALSE]
    /\ skipEffect = [ran |-> FALSE, onJoin |-> FALSE]
    /\ setups = <<>>
    /\ media = InitialMedia
    /\ entered = <<>>

\* The parts that are single components, not running.
IdleComponents == IdleMembers /\ IdleList /\ IdleError

\* How many times the effect may run in one mount (the first run included).
MaxRuns == 2

Undefined == "undefined"

\* The MatrixClient handed to the hook; a re-created client is one more value.
Clients == {"c1"}

\* client.getDomain()
getDomain(client) == "hs1"

\* Room identifiers the hook may be given: an alias on hs1 and a room id on hs2.
Idents == {[sigil |-> "#", localpart |-> "Room", domain |-> "hs1"],
           [sigil |-> "!", localpart |-> "opaque", domain |-> "hs2"]}

ViaServerLists == {<<>>, <<"hs2">>}

SyncStates == {"PREPARED", "SYNCING"}

\* The failures the client's requests may settle with: what the catch block reads
\* of an error is its errcode and its message.
ErrorKinds == {[errcode |-> "M_NOT_FOUND", message |-> <<"Room", "not", "found">>],
               [errcode |-> Undefined, message |-> <<"Failed to fetch alias", "#room">>],
               [errcode |-> "M_FORBIDDEN", message |-> <<>>]}

\* An Error object: its content and where it was thrown (its identity).
ErrorOf(kind, r, op) ==
    [errcode |-> kind.errcode, message |-> kind.message, run |-> r, op |-> op]

\* message.indexOf(needle) !== -1, on a message held as a sequence of fragments
indexOfFound(message, needle) == \E i \in 1..Len(message) : message[i] = needle

\* isLocalRoomId(roomIdOrAlias, client): the identifier's server part is the
\* client's own domain.
isLocalRoomId(roomIdOrAlias, client) == roomIdOrAlias.domain = getDomain(client)

\* The condition of the catch block: the room can be created instead.
canCreateInstead(roomIdOrAlias, client, error) ==
    /\ isLocalRoomId(roomIdOrAlias, client)
    /\ \/ error.errcode = "M_NOT_FOUND"
       \/ /\ error.message # <<>>
          /\ indexOfFound(error.message, "Failed to fetch alias")

\* randomString(32): only the length of the key is modelled.
SharedKeyLength == 32

randomString(len) == [len |-> len]

getRoomSharedKeyLocalStorageKey(roomId) == [sharedKeyOf |-> roomId]

\* The roomId createRoom resolves with in run r, and the room joinRoom resolves with.
createdRoomId(r) == [created |-> r]

joinedRoomId(roomIdOrAlias) == [joined |-> roomIdOrAlias]

\* What the block after createRoom writes to local storage.
storeSharedKey_Always(store, roomId, e2eeEnabled) ==
    store \cup {<<getRoomSharedKeyLocalStorageKey(roomId), randomString(SharedKeyLength)>>}

storeSharedKey(store, roomId, e2eeEnabled) ==
    IF e2eeEnabled
    THEN store \cup {<<getRoomSharedKeyLocalStorageKey(roomId),
                       randomString(SharedKeyLength)>>}
    ELSE store

Loading == [kind |-> "loading"]

Loaded(rtcSession) == [kind |-> "loaded", rtcSession |-> rtcSession]

Failed_Wrapped(error) == [kind |-> "failed", error |-> [error EXCEPT !.op = "wrapped"]]

Failed(error) == [kind |-> "failed", error |-> error]

\* client.matrixRTC.getRoomSession(room)
getRoomSession(client, roomId) == [client |-> client, room |-> roomId]

NoError == [errcode |-> Undefined, message |-> <<>>, run |-> 0, op |-> "none"]

\* No session yet (const rtcSession before getRoomSession has been called).
NoSession == [none |-> "rtcSession"]

\* A run of the effect: the inputs its closures captured, where its promise chain
\* stands, and what it has done so far.
NewRun(d, pc) ==
    [deps |-> [client |-> d.client, roomIdOrAlias |-> d.roomIdOrAlias,
               e2eeEnabled |-> d.e2eeEnabled],
     pc |-> pc,
     joinRoomCalls |-> IF pc = "joinRoom" THEN 1 ELSE 0,
     createRoomCalls |-> 0,
     ready |-> FALSE,            \* waitUntilRoomReadyForGroupCalls(room) has resolved
     rtcSession |-> NoSession,   \* what getRoomSession returned to the run
     error |-> NoError,          \* the last error a request of the run rejected with
     outcome |-> "none"]

RunIds == 1..Len(runs)

DepsSet == [client : Clients, roomIdOrAlias : Idents,
            viaServers : ViaServerLists, e2eeEnabled : BOOLEAN]

InitLoad ==
    /\ deps \in DepsSet
    /\ state = Loading
    /\ effectDue = TRUE
    /\ runs = <<>>
    /\ syncState \in [Clients -> SyncStates]
    /\ onSync = {}
    /\ localStorage = {}
    /\ IdleView
    /\ IdleFocus
    /\ IdleUrl
    /\ IdleComponents
    /\ IdleSkipLobby

\* The effect body (lines 67-154) up to its first await: waitForClientSyncing
\* either finds the client syncing, and fetchOrCreateRoom issues joinRoom, or
\* registers onSync.
useEffect ==
    /\ effectDue
    /\ effectDue' = FALSE
    /\ LET r == Len(runs) + 1
           syncing == syncState[deps.client] = "SYNCING"
       IN /\ runs' = Append(runs, NewRun(deps, IF syncing THEN "joinRoom" ELSE "waitSync"))
          /\ onSync' = IF syncing THEN onSync ELSE onSync \cup {r}
    /\ UNCHANGED <<deps, state, syncState, localStorage, notLoad>>

\* The inputs of the hook change (a re-render with another client, identifier,
\* via-server list or encryption setting): the effect is due again.
ChangeInputs ==
    /\ ~effectDue
    /\ Len(runs) < MaxRuns
    /\ \E d \in DepsSet :
        /\ d # deps
        /\ deps' = d
    /\ effectDue' = TRUE
    /\ UNCHANGED <<state, runs, syncState, onSync, localStorage, notLoad>>

\* onSync testing for a state the client has left by then.
resolvesOn_Prepared(s) == s = "PREPARED"

\* onSync resolving at every notification, whatever the state.
resolvesOn_Any(s) == TRUE

\* The test of onSync (line 139): client.getSyncState() === SyncState.Syncing
resolvesOn(s) == s = "SYNCING"

\* The client emits ClientEvent.Sync with a new state; every registered onSync
\* of that client runs, and one that finds the client syncing removes itself,
\* resolves, and its run goes on to joinRoom.
ClientSync ==
    \E c \in Clients, s \in SyncStates :
        /\ syncState' = [syncState EXCEPT ![c] = s]
        /\ LET woken == {r \in onSync : runs[r].deps.client = c /\ resolvesOn(s)}
           IN /\ onSync' = onSync \ woken
              /\ runs' = [r \in RunIds |->
                            IF r \in woken
                            THEN [runs[r] EXCEPT !.pc = "joinRoom", !.joinRoomCalls = @ + 1]
                            ELSE runs[r]]
        /\ UNCHANGED <<deps, state, effectDue, localStorage, notLoad>>

\* The wait for the room's readiness has resolved: fetchOrCreateRoom returns
\* the room to fetchOrCreateGroupCall, which gets its session (lines 125-129),
\* and the chain's .then sets the status (line 152).
Resolve(r, roomId) ==
    LET rtcSession == getRoomSession(runs[r].deps.client, roomId)
    IN /\ runs' = [runs EXCEPT ![r].pc = "done", ![r].outcome = "loaded",
                               ![r].ready = TRUE, ![r].rtcSession = rtcSession]
       /\ state' = Loaded(rtcSession)

\* A joined room returned without the wait for its readiness.
awaitsReady_CreatedOnly(pc) == pc = "createRoom"

\* Whether the request that has resolved is followed by an await of
\* waitUntilRoomReadyForGroupCalls before the room is returned (lines 84, 116).
awaitsReady(pc) == pc \in {"joinRoom", "createRoom"}

\* joinRoom or createRoom has resolved with a room: the run goes on to wait
\* for the room's readiness (were there no wait, the room would be returned
\* at once).
Proceed(r, roomId, waitPc) ==
    IF awaitsReady(runs[r].pc)
    THEN /\ runs' = [runs EXCEPT ![r].pc = waitPc]
         /\ UNCHANGED state
    ELSE LET rtcSession == getRoomSession(runs[r].deps.client, roomId)
         IN /\ runs' = [runs EXCEPT ![r].pc = "done", ![r].outcome = "loaded",
                                    ![r].rtcSession = rtcSession]
            /\ state' = Loaded(rtcSession)

\* A chain that would start over after a failure instead of stopping.
Reject_Retry(r, error) ==
    /\ runs' = [runs EXCEPT ![r].pc = "joinRoom", ![r].joinRoomCalls = @ + 1,
                            ![r].error = error]
    /\ state' = Failed(error)

\* The chain's .catch(setState failed): run r rejected with error.
Reject(r, error) ==
    /\ runs' = [runs EXCEPT ![r].pc = "done", ![r].outcome = "failed",
                            ![r].error = error]
    /\ state' = Failed(error)

\* The catch block of fetchOrCreateRoom (lines 87-121) on an error of the try
\* block: createRoom is issued, or the error is thrown on to the chain's .catch.
Catch(r, error) ==
    IF canCreateInstead(runs[r].deps.roomIdOrAlias, runs[r].deps.client, error)
    THEN /\ runs' = [runs EXCEPT ![r].pc = "createRoom",
                                 ![r].createRoomCalls = @ + 1,
                                 ![r].error = error]
         /\ UNCHANGED state
    ELSE Reject(r, error)

JoinRoomResolves ==
    \E r \in RunIds :
        /\ runs[r].pc = "joinRoom"
        /\ Proceed(r, joinedRoomId(runs[r].deps.roomIdOrAlias), "waitReadyJoined")
        /\ UNCHANGED <<deps, effectDue, syncState, onSync, localStorage, notLoad>>

JoinRoomRejects ==
    \E r \in RunIds, k \in ErrorKinds :
        /\ runs[r].pc = "joinRoom"
        /\ Catch(r, ErrorOf(k, r, "joinRoom"))
        /\ UNCHANGED <<deps, effectDue, syncState, onSync, localStorage, notLoad>>

\* waitUntilRoomReadyForGroupCalls of the joined room settles.
ReadyJoinedResolves ==
    \E r \in RunIds :
        /\ runs[r].pc = "waitReadyJoined"
        /\ Resolve(r, joinedRoomId(runs[r].deps.roomIdOrAlias))
        /\ UNCHANGED <<deps, effectDue, syncState, onSync, localStorage, notLoad>>

ReadyJoinedRejects ==
    \E r \in RunIds, k \in ErrorKinds :
        /\ runs[r].pc = "waitReadyJoined"
        /\ Catch(r, ErrorOf(k, r, "waitReadyJoined"))
        /\ UNCHANGED <<deps, effectDue, syncState, onSync, localStorage, notLoad>>

\* createRoom resolves: the shared key is stored, then the readiness wait starts.
CreateRoomResolves ==
    \E r \in RunIds :
        /\ runs[r].pc = "createRoom"
        /\ localStorage' = storeSharedKey(localStorage, createdRoomId(r),
                                          runs[r].deps.e2eeEnabled)
        /\ Proceed(r, createdRoomId(r), "waitReadyCreated")
        /\ UNCHANGED <<deps, effectDue, syncState, onSync, notLoad>>

\* An await inside the catch block rejects: the error leaves fetchOrCreateRoom.
CreateRoomRejects ==
    \E r \in RunIds, k \in ErrorKinds :
        /\ runs[r].pc = "createRoom"
        /\ Reject(r, ErrorOf(k, r, "createRoom"))
        /\ UNCHANGED <<deps, effectDue, syncState, onSync, localStorage, notLoad>>

ReadyCreatedResolves ==
    \E r \in RunIds :
        /\ runs[r].pc = "waitReadyCreated"
        /\ Resolve(r, createdRoomId(r))
        /\ UNCHANGED <<deps, effectDue, syncState, onSync, localStorage, notLoad>>

ReadyCreatedRejects ==
    \E r \in RunIds, k \in ErrorKinds :
        /\ runs[r].pc = "waitReadyCreated"
        /\ Reject(r, ErrorOf(k, r, "waitReadyCreated"))
        /\ UNCHANGED <<deps, effectDue, syncState, onSync, localStorage, notLoad>>

NextLoad ==
    \/ useEffect
    \/ ChangeInputs
    \/ ClientSync
    \/ JoinRoomResolves
    \/ JoinRoomRejects
    \/ ReadyJoinedResolves
    \/ ReadyJoinedRejects
    \/ CreateRoomResolves
    \/ CreateRoomRejects
    \/ ReadyCreatedResolves
    \/ ReadyCreatedRejects

SpecLoad == InitLoad /\ [][NextLoad]_vars

\* A request of run r (joinRoom, createRoom or a wait for the room's
\* readiness) settles.
Settles(r) ==
    /\ r \in RunIds
    /\ runs[r].pc \in {"joinRoom", "waitReadyJoined", "createRoom", "waitReadyCreated"}
    /\ NextLoad
    /\ runs'[r].pc # runs[r].pc

\* The client of a waiting run emits a sync notification in the Syncing state.
ReportsSyncing(c) ==
    /\ ClientSync
    /\ syncState'[c] = "SYNCING"

\* The scheduling the hook runs under: React runs an effect that is due, a
\* client that is waited for comes to report Syncing, and every request of
\* every run settles.
FairLoad ==
    /\ WF_vars(useEffect)
    /\ \A c \in Clients : WF_vars(ReportsSyncing(c))
    /\ \A r \in 1..MaxRuns : WF_vars(Settles(r))

SpecLoadFair == SpecLoad /\ FairLoad

(***************************************************************************)
(*                            GroupCallView                                *)
(***************************************************************************)

\* How many times the call may be left in one behaviour, by onLeave or by onHangup.
MaxLeaves == 1

\* How many JoinCall requests the host may send in one behaviour.
MaxJoinCalls == 1

\* The leave errors onLeave may be handed (undefined: an ordinary hangup).
LeaveErrors == {"undefined", "ConnectionLostError"}

\* The view's variables while no useLoadGroupCall is mounted in the behaviour.
IdleLoad ==
    /\ deps = [client |-> "c1",
               roomIdOrAlias |-> [sigil |-> "#", localpart |-> "Room", domain |-> "hs1"],
               viaServers |-> <<>>, e2eeEnabled |-> FALSE]
    /\ state = Loading
    /\ effectDue = FALSE
    /\ runs = <<>>
    /\ syncState = [c \in Clients |-> "PREPARED"]
    /\ onSync = {}
    /\ localStorage = {}

\* useMatrixRTCSessionJoinState(rtcSession): the session reports joined until
\* its join state has changed.
isJoined == rtc \in {"joined", "leaving"}

\* The encryption gates with the incompatible-browser test made first.
Presentation_BrowserFirst ==
    IF ~env.e2eeSupported /\ e2ee.isRoomE2EE THEN "IncompatibleBrowser"
    ELSE IF e2ee.e2eeEnabled /\ e2ee.isRoomE2EE /\ e2ee.e2eeSharedKey = "undefined"
    THEN "ErrorView:NoE2EEKey"
    ELSE IF ~e2ee.e2eeEnabled /\ e2ee.isRoomE2EE THEN "ErrorView:EnableE2EE"
    ELSE IF isJoined THEN "ActiveCall"
    ELSE IF left
    THEN IF \/ props.isPasswordlessUser
            \/ (env.analyticsEnabled /\ ~env.widget)
            \/ leaveError # "undefined"
         THEN "CallEndedView"
         ELSE "null"
    ELSE IF props.preload THEN "null"
    ELSE "LobbyView"

\* The key test made only once the user is not in the call.
Presentation_JoinedFirst ==
    IF isJoined /\ env.e2eeSupported /\ e2ee.e2eeEnabled THEN "ActiveCall"
    ELSE IF e2ee.e2eeEnabled /\ e2ee.isRoomE2EE /\ e2ee.e2eeSharedKey = "undefined"
    THEN "ErrorView:NoE2EEKey"
    ELSE IF ~env.e2eeSupported /\ e2ee.isRoomE2EE THEN "IncompatibleBrowser"
    ELSE IF ~e2ee.e2eeEnabled /\ e2ee.isRoomE2EE THEN "ErrorView:EnableE2EE"
    ELSE IF isJoined THEN "ActiveCall"
    ELSE IF left
    THEN IF \/ props.isPasswordlessUser
            \/ (env.analyticsEnabled /\ ~env.widget)
            \/ leaveError # "undefined"
         THEN "CallEndedView"
         ELSE "null"
    ELSE IF props.preload THEN "null"
    ELSE "LobbyView"

\* The post-call screen shown to guests and for feedback only.
showCallEndedView_IgnoresLeaveError ==
    \/ props.isPasswordlessUser
    \/ (env.analyticsEnabled /\ ~env.widget)

\* The condition of the left branch (lines 361-365): CallEndedView is rendered.
showCallEndedView ==
    \/ props.isPasswordlessUser
    \/ (env.analyticsEnabled /\ ~env.widget)
    \/ leaveError # "undefined"

\* What GroupCallView returns (lines 300-400) in the current state.
Presentation ==
    IF e2ee.e2eeEnabled /\ e2ee.isRoomE2EE /\ e2ee.e2eeSharedKey = "undefined"
    THEN "ErrorView:NoE2EEKey"
    ELSE IF ~env.e2eeSupported /\ e2ee.isRoomE2EE THEN "IncompatibleBrowser"
    ELSE IF ~e2ee.e2eeEnabled /\ e2ee.isRoomE2EE THEN "ErrorView:EnableE2EE"
    ELSE IF isJoined THEN "ActiveCall"
    ELSE IF left
    THEN IF showCallEndedView
         THEN "CallEndedView"
         ELSE "null"
    ELSE IF props.preload THEN "null"
    ELSE "LobbyView"

\* The props GroupCallView hands LobbyView (lines 388-397 of GroupCallView.tsx):
\* confineToRoom is passed, and isEmbedded, which LobbyView declares (line 37
\* of LobbyView.tsx), is not, so LobbyView reads it as undefined.
LobbyViewProps ==
    [confineToRoom |-> IF props.confineToRoom THEN "true" ELSE "false",
     isEmbedded |-> "undefined"]

\* !value, for a prop that is a boolean or undefined
not(value) == value \in {"false", "undefined"}

\* The footer of LobbyView (lines 108-114 of LobbyView.tsx): the link home.
LobbyFooter(lobbyProps) ==
    IF not(lobbyProps.isEmbedded) THEN <<"Link to /">> ELSE <<>>

\* The configuration built when there is no key.
e2eeConfig_Inverted ==
    IF e2ee.e2eeSharedKey = "undefined"
    THEN [sharedKey |-> e2ee.e2eeSharedKey]
    ELSE [undefined |-> TRUE]

\* The useMemo of lines 265-268: the encryption configuration ActiveCall is
\* handed (line 348).
e2eeConfig ==
    IF e2ee.e2eeSharedKey # "undefined"
    THEN [sharedKey |-> e2ee.e2eeSharedKey]
    ELSE [undefined |-> TRUE]

\* enterRTCSession(rtcSession) and leaveRTCSession(rtcSession), on the join state.
enterRTCSession(s) == IF s = "out" THEN "joining" ELSE s

leaveRTCSession(s) ==
    IF s = "joined" THEN "leaving" ELSE IF s = "joining" THEN "out" ELSE s

\* onLeave with the session left before the local state is set.
beforeTimeout_LeaveFirst ==
    <<"eventCallEnded.track", "leaveRTCSession", "setLeaveError", "setLeft(true)">>

\* onLeave up to its await (lines 216-228): what it does, in order.
beforeTimeout ==
    <<"setLeaveError", "setLeft(true)", "eventCallEnded.track", "leaveRTCSession">>

\* onLeave after the 10 ms timer (lines 233-235), with the host told first.
afterTimeout_HangupFirst ==
    <<"send HangupCall", "setAlwaysOnScreen(false)", "PosthogAnalytics.logout">>

\* onLeave after the 10 ms timer (lines 233-235): what it does, in order.
afterTimeout ==
    <<"setAlwaysOnScreen(false)", "PosthogAnalytics.logout", "send HangupCall">>

\* The navigation home made when not embedded instead of when not passwordless.
navigation_NotEmbedded ==
    IF ~env.widget /\ ~props.confineToRoom /\ ~env.analyticsEnabled
    THEN <<"history.push(/)">>
    ELSE <<>>

\* The end of onLeave (lines 238-244): the navigation home, if any.
navigation ==
    IF ~props.isPasswordlessUser /\ ~props.confineToRoom /\ ~env.analyticsEnabled
    THEN <<"history.push(/)">>
    ELSE <<>>

\* What of a list of effects reaches the widget host.
HostMessages(log) ==
    SelectSeq(log, LAMBDA e : e \in {"setAlwaysOnScreen(false)", "send HangupCall",
                                     "setAlwaysOnScreen(true)", "reply JoinCall",
                                     "reply HangupCall"})

\* How many HangupCall requests of the host a list of effects answers.
Hangups(log) == Len(SelectSeq(log, LAMBDA e : e = "reply HangupCall"))

InitView ==
    /\ props \in [isPasswordlessUser : BOOLEAN, confineToRoom : BOOLEAN,
                  preload : BOOLEAN, skipLobby : BOOLEAN]
    /\ env \in [widget : BOOLEAN, analyticsEnabled : BOOLEAN, e2eeSupported : BOOLEAN]
    /\ e2ee \in [e2eeEnabled : BOOLEAN, isRoomE2EE : BOOLEAN,
                 e2eeSharedKey : {"undefined", "key"}]
    \* skip-lobby mode implies running embedded
    /\ props.skipLobby => env.widget
    /\ mounted = FALSE
    /\ rtc = "out"
    /\ left = FALSE
    /\ leaveError = "undefined"
    /\ leaves = <<>>
    /\ hostLog = <<>>
    /\ listeners = [JoinCall |-> 0, HangupCall |-> 0]
    /\ hostActions = <<>>
    /\ IdleLoad
    /\ IdleFocus
    /\ IdleUrl
    /\ IdleComponents
    /\ IdleSkipLobby

\* The skip-lobby effect (lines 137-208) with the props of a render: whether it
\* registers onJoin for JoinCall, and whether it enters the session itself.
joinListenerOf(p) == IF p.skipLobby /\ env.widget /\ p.preload THEN 1 ELSE 0

\* The effect entering the session in preload mode as well.
entersOnEffect_Always(p) == p.skipLobby

entersOnEffect(p) == p.skipLobby /\ ~(env.widget /\ p.preload)

\* The hangup effect (lines 249-261) of a render with that isJoined: whether it
\* registers onHangup for HangupCall.
hangupListenerOf(joined) == IF env.widget /\ joined THEN 1 ELSE 0

\* A listener registered with on, which stays after it has run.
afterOnce_Stays(n) == n

\* A listener registered with once (line 256) is removed when it runs.
afterOnce(n) == 0

\* onJoin (lines 191-198): what it does, in order.
onJoinEffects ==
    <<"defaultDeviceSetup", "enterRTCSession", "setAlwaysOnScreen(true)", "reply JoinCall">>

\* onHangup (lines 251-255): what it does, in order.
onHangupEffects ==
    <<"leaveRTCSession", "reply HangupCall", "setAlwaysOnScreen(false)">>

\* How many JoinCall requests of the host have been handled.
JoinCalls(actions) == Len(SelectSeq(actions, LAMBDA h : h.action = "JoinCall"))

\* The first render of a mount and its effects: the skip-lobby effect (lines
\* 137-208) enters the session or registers onJoin, and the hangup effect
\* (lines 249-261) registers onHangup if the session is joined.
Mount ==
    /\ ~mounted
    /\ mounted' = TRUE
    /\ rtc' = IF entersOnEffect(props) THEN enterRTCSession(rtc) ELSE rtc
    /\ listeners' = [JoinCall |-> joinListenerOf(props),
                     HangupCall |-> hangupListenerOf(isJoined)]
    /\ UNCHANGED <<props, env, e2ee, left, leaveError, leaves, hostLog, hostActions, notView>>

\* The view unmounts: the cleanups of its effects remove the listeners (lines
\* 200-202, 257-259) and its state is discarded. The session and an onLeave
\* that waits for its timer are not affected.
Unmount ==
    /\ mounted
    /\ mounted' = FALSE
    /\ listeners' = [JoinCall |-> 0, HangupCall |-> 0]
    /\ left' = FALSE
    /\ leaveError' = "undefined"
    /\ UNCHANGED <<props, env, e2ee, rtc, leaves, hostLog, hostActions, notView>>

\* A render with another preload or skipLobby: the skip-lobby effect is cleaned
\* up and runs again (its dependencies, line 208).
PropsChange ==
    /\ mounted
    /\ \E pre \in BOOLEAN, skip \in BOOLEAN :
        /\ <<pre, skip>> # <<props.preload, props.skipLobby>>
        /\ skip => env.widget
        /\ props' = [props EXCEPT !.preload = pre, !.skipLobby = skip]
    /\ rtc' = IF entersOnEffect(props') THEN enterRTCSession(rtc) ELSE rtc
    /\ listeners' = [listeners EXCEPT !.JoinCall = joinListenerOf(props')]
    /\ UNCHANGED <<env, e2ee, mounted, left, leaveError, leaves, hostLog, hostActions, notView>>

\* The host sends JoinCall and the registered onJoin runs (lines 191-198).
onJoin ==
    /\ listeners.JoinCall > 0
    /\ JoinCalls(hostActions) < MaxJoinCalls
    /\ rtc' = enterRTCSession(rtc)
    /\ hostActions' = Append(hostActions, [action |-> "JoinCall", did |-> onJoinEffects])
    /\ hostLog' = hostLog \o HostMessages(onJoinEffects)
    /\ UNCHANGED <<props, env, e2ee, mounted, left, leaveError, leaves, listeners, notView>>

\* The Lobby's onEnter (line 392).
onEnter ==
    /\ mounted
    /\ Presentation = "LobbyView"
    /\ rtc' = enterRTCSession(rtc)
    /\ rtc' # rtc
    /\ UNCHANGED <<props, env, e2ee, mounted, left, leaveError, leaves, hostLog,
                   listeners, hostActions, notView>>

\* The session's join state changes: the pending join or leave takes effect,
\* and a mounted view renders with the new isJoined, which cleans up the hangup
\* effect and runs it again (its dependencies, line 261).
JoinStateChanged ==
    /\ rtc \in {"joining", "leaving"}
    /\ rtc' = IF rtc = "joining" THEN "joined" ELSE "out"
    /\ listeners' = IF mounted
                    THEN [listeners EXCEPT !.HangupCall = hangupListenerOf(rtc' = "joined")]
                    ELSE listeners
    /\ UNCHANGED <<props, env, e2ee, mounted, left, leaveError, leaves, hostLog,
                   hostActions, notView>>

\* A re-render in which useEnableE2EE, useIsRoomE2EE or useManageRoomSharedKey
\* returns another value than before (lines 80-81, 263).
EncryptionChanges ==
    /\ mounted
    /\ e2ee' \in [e2eeEnabled : BOOLEAN, isRoomE2EE : BOOLEAN,
                  e2eeSharedKey : {"undefined", "key"}]
    /\ e2ee' # e2ee
    /\ UNCHANGED <<props, env, mounted, rtc, left, leaveError, leaves, hostLog,
                   listeners, hostActions, notView>>

\* ActiveCall calls onLeave(leaveError) (lines 214-247): all of it when not
\* embedded, and up to the await of the 10 ms timer when embedded.
onLeave ==
    \E err \in LeaveErrors :
        /\ mounted
        /\ Presentation = "ActiveCall"
        /\ Len(leaves) + Hangups(hostLog) < MaxLeaves
        /\ leaveError' = err
        /\ left' = TRUE
        /\ rtc' = leaveRTCSession(rtc)
        /\ leaves' = Append(leaves,
              IF env.widget
              THEN [pc |-> "timer", did |-> beforeTimeout]
              ELSE [pc |-> "done", did |-> beforeTimeout \o navigation])
        /\ UNCHANGED <<props, env, e2ee, mounted, hostLog, listeners, hostActions, notView>>

\* The 10 ms timer of an embedded onLeave fires and onLeave runs to its end.
onLeaveTimeout ==
    \E i \in 1..Len(leaves) :
        /\ leaves[i].pc = "timer"
        /\ leaves' = [leaves EXCEPT ![i].pc = "done",
                                    ![i].did = @ \o <<"timeout">> \o afterTimeout \o navigation]
        /\ hostLog' = hostLog \o HostMessages(afterTimeout)
        /\ UNCHANGED <<props, env, e2ee, mounted, rtc, left, leaveError, listeners,
                       hostActions, notView>>

\* The host sends HangupCall while the user is in the call and the registered
\* onHangup runs (lines 249-261).
onHangup ==
    /\ listeners.HangupCall > 0
    /\ Len(leaves) + Hangups(hostLog) < MaxLeaves
    /\ rtc' = leaveRTCSession(rtc)
    /\ listeners' = [listeners EXCEPT !.HangupCall = afterOnce(@)]
    /\ hostActions' = Append(hostActions, [action |-> "HangupCall", did |-> onHangupEffects])
    /\ hostLog' = hostLog \o HostMessages(onHangupEffects)
    /\ UNCHANGED <<props, env, e2ee, mounted, left, leaveError, leaves, notView>>

\* CallEndedView calls reconnect (lines 270-274).
onReconnect ==
    /\ mounted
    /\ Presentation = "CallEndedView"
    /\ left' = FALSE
    /\ leaveError' = "undefined"
    /\ rtc' = enterRTCSession(rtc)
    /\ UNCHANGED <<props, env, e2ee, mounted, leaves, hostLog, listeners, hostActions, notView>>

NextView ==
    \/ Mount
    \/ Unmount
    \/ PropsChange
    \/ onJoin
    \/ onEnter
    \/ JoinStateChanged
    \/ EncryptionChanges
    \/ onLeave
    \/ onLeaveTimeout
    \/ onHangup
    \/ onReconnect

SpecView == InitView /\ [][NextView]_vars

(***************************************************************************)
(*                            useActiveFocus                               *)
(***************************************************************************)

\* How many memberships the session may hold at once.
MaxMemberships == 2

\* The createdTs values of the membership events.
Timestamps == {1, 2, 3}

\* The focus descriptors a membership may advertise. obj is the identity of the
\* object (each parsed event holds objects of its own); the rest is its content.
Foci == [obj : {"o1", "o2"}, livekit_service_url : {"https://sfu1", "https://sfu2"},
         livekit_alias : {"room"}]

BackupFocus == [obj |-> "o3", livekit_service_url |-> "https://sfu3",
                livekit_alias |-> "room"]

\* An undefined focus or membership (a value of its own, unlike any object).
NoFocus == [undefined |-> TRUE]

\* membership.getActiveFoci(): no focus, one, or one followed by a second.
FociLists == {<<>>} \cup {<<f>> : f \in Foci} \cup {<<f, BackupFocus>> : f \in Foci}

Memberships == [createdTs : Timestamps, foci : FociLists]

\* The session keeps its memberships sorted by createdTs, oldest first.
IsSorted(ms) == \A i \in 1..(Len(ms) - 1) : ms[i].createdTs < ms[i + 1].createdTs

\* rtcSession.getOldestMembership()
getOldestMembership(ms) == IF ms = <<>> THEN NoFocus ELSE ms[1]

\* getActiveFocus reading the membership that joined last.
getActiveFocus_Newest(ms) ==
    IF ms = <<>> THEN NoFocus
    ELSE IF ms[Len(ms)].foci = <<>> THEN NoFocus ELSE ms[Len(ms)].foci[1]

\* getActiveFocus(rtcSession) (lines 27-41): oldestMembership?.getActiveFoci()[0]
getActiveFocus(ms) ==
    LET oldestMembership == getOldestMembership(ms)
    IN IF oldestMembership = NoFocus THEN NoFocus
       ELSE IF Len(oldestMembership.foci) = 0 THEN NoFocus
       ELSE oldestMembership.foci[1]

\* A comparison of the two references instead of their content.
deepCompare_Reference(a, b) == a = b

\* deepCompare(a, b) of matrix-js-sdk/src/utils: the same content, whichever objects.
deepCompare(a, b) ==
    IF a = NoFocus \/ b = NoFocus THEN a = b
    ELSE /\ a.livekit_service_url = b.livekit_service_url
         /\ a.livekit_alias = b.livekit_alias

InitFocus ==
    /\ memberships \in {<<>>} \cup {<<m>> : m \in Memberships}
    /\ focusState = NoFocus
    /\ activeFocus = NoFocus
    /\ newActiveFocus = NoFocus
    /\ focusOp = "none"
    /\ IdleLoad
    /\ IdleView
    /\ IdleUrl
    /\ IdleComponents
    /\ IdleSkipLobby

\* The first render (lines 51-53, 63-75): useState's initialiser calls
\* getActiveFocus, and the effect registers onMembershipsChanged.
MountFocus ==
    /\ focusOp = "none"
    /\ newActiveFocus' = getActiveFocus(memberships)
    /\ focusState' = newActiveFocus'
    /\ activeFocus' = newActiveFocus'
    /\ focusOp' = "mount"
    /\ UNCHANGED <<memberships, notFocus>>

\* The memberships of the session after one change: a membership added (it is
\* the newest), one removed, or one replaced by a newly parsed event.
MembershipChanges(ms) ==
    {Append(ms, m) : m \in {n \in Memberships : Len(ms) < MaxMemberships}}
    \cup {SubSeq(ms, 1, i - 1) \o SubSeq(ms, i + 1, Len(ms)) : i \in 1..Len(ms)}
    \cup {[ms EXCEPT ![i].foci = fl] : i \in 1..Len(ms), fl \in FociLists}

\* The session's memberships change and it emits MembershipsChanged; the
\* registered onMembershipsChanged (lines 55-61) runs.
onMembershipsChanged ==
    /\ focusOp # "none"
    /\ \E ms \in MembershipChanges(memberships) :
        /\ IsSorted(ms)
        /\ memberships' = ms
    /\ newActiveFocus' = getActiveFocus(memberships')
    /\ focusState' = IF ~deepCompare(activeFocus, newActiveFocus')
                     THEN newActiveFocus'
                     ELSE focusState
    /\ focusOp' = "notified"
    /\ UNCHANGED <<activeFocus, notFocus>>

\* The component renders again: the hook returns the state, and the effect
\* replaces the listener by the callback of this render.
RenderFocus ==
    /\ focusOp # "none"
    /\ activeFocus' = focusState
    /\ focusOp' = "render"
    /\ UNCHANGED <<memberships, focusState, newActiveFocus, notFocus>>

NextFocus ==
    \/ MountFocus
    \/ onMembershipsChanged
    \/ RenderFocus

SpecFocus == InitFocus /\ [][NextFocus]_vars

(***************************************************************************)
(*                               UrlParams                                 *)
(***************************************************************************)
\* A string is a sequence whose elements are single characters that the code
\* looks for ("?", "&", "=", "+", "#", ":", "!", " ") and words of other
\* characters ("roomId", "abc", "1.5").

\* How many parameters a URL may carry, in its two queries together.
MaxPairs == 2

\* null, as a string-typed value that is no string of the model.
Null == <<"<null>">>

\* hash.indexOf(ch): the first position of ch, 0 for the -1 of the code.
indexOf(str, ch) ==
    IF \E i \in 1..Len(str) : str[i] = ch
    THEN CHOOSE i \in 1..Len(str) : str[i] = ch /\ \A j \in 1..(i - 1) : str[j] # ch
    ELSE 0

\* str.substring(from), with positions counted from 1
substring(str, from) == SubSeq(str, from, Len(str))

RECURSIVE split(_, _)
\* The pieces of str between the occurrences of sep.
split(str, sep) ==
    LET at == indexOf(str, sep)
    IN IF at = 0 THEN <<str>>
       ELSE <<SubSeq(str, 1, at - 1)>> \o split(substring(str, at + 1), sep)

\* The characters URLSearchParams writes percent-encoded, and how.
PercentEncoded == {"!", "=", ":", "#", "?", "&", "/"}

percentEncode(ch) ==
    CASE ch = "!" -> "%21" [] ch = "=" -> "%3D" [] ch = ":" -> "%3A"
      [] ch = "#" -> "%23" [] ch = "?" -> "%3F" [] ch = "&" -> "%26"
      [] ch = "/" -> "%2F" [] OTHER -> ch

percentDecode(word) ==
    IF \E ch \in PercentEncoded : percentEncode(ch) = word
    THEN CHOOSE ch \in PercentEncoded : percentEncode(ch) = word
    ELSE word

\* The decoding of a name or value of a query: "+" stands for a space, and a
\* percent-encoded character for the character.
decode(str) ==
    [i \in 1..Len(str) |-> IF str[i] = "+" THEN " " ELSE percentDecode(str[i])]

\* The encoding URLSearchParams.toString applies to a name or value.
encode(str) ==
    [i \in 1..Len(str) |-> IF str[i] = " " THEN "+" ELSE percentEncode(str[i])]

\* new URLSearchParams(init): a leading "?" is dropped, the rest is split at
\* "&", empty pieces are skipped, and each piece is split at its first "=".
URLSearchParams(init) ==
    LET body == IF init # <<>> /\ init[1] = "?" THEN Tail(init) ELSE init
        pieces == SelectSeq(split(body, "&"), LAMBDA piece : piece # <<>>)
        entry(piece) ==
            LET eq == indexOf(piece, "=")
            IN IF eq = 0 THEN <<decode(piece), <<>> >>
               ELSE <<decode(SubSeq(piece, 1, eq - 1)), decode(substring(piece, eq + 1))>>
    IN [i \in 1..Len(pieces) |-> entry(pieces[i])]

\* URLSearchParams.has, .get (the first value, or null) and .getAll
has(params, name) == \E i \in 1..Len(params) : params[i][1] = <<name>>

get(params, name) ==
    IF has(params, name)
    THEN params[CHOOSE i \in 1..Len(params) :
                    /\ params[i][1] = <<name>>
                    /\ \A j \in 1..(i - 1) : params[j][1] # <<name>>][2]
    ELSE Null

getAll(params, name) ==
    LET hits == SelectSeq(params, LAMBDA e : e[1] = <<name>>)
    IN [i \in 1..Len(hits) |-> hits[i][2]]

\* The ParamParser constructor (lines 125-132): the two parameter lists.
queryParams(searchStr) == URLSearchParams(searchStr)

fragmentParams(hashStr) ==
    LET fragmentQueryStart == indexOf(hashStr, "?")
    IN URLSearchParams(IF fragmentQueryStart = 0 THEN <<>>
                       ELSE substring(hashStr, fragmentQueryStart))

RECURSIVE toString(_)
\* URLSearchParams.toString(): name=value pieces joined by "&".
toString(params) ==
    IF params = <<>> THEN <<>>
    ELSE LET piece == encode(params[1][1]) \o <<"=">> \o encode(params[1][2])
         IN IF Len(params) = 1 THEN piece
            ELSE piece \o <<"&">> \o toString(Tail(params))

\* URLSearchParams.set(name, value): the first entry of that name takes the
\* value and the others of that name are removed; without one, an entry is added.
set(params, name, value) ==
    IF has(params, name)
    THEN LET first == CHOOSE i \in 1..Len(params) :
                          /\ params[i][1] = <<name>>
                          /\ \A j \in 1..(i - 1) : params[j][1] # <<name>>
             kept == {i \in 1..Len(params) : i = first \/ params[i][1] # <<name>>}
             nth(k) == CHOOSE i \in kept : Cardinality({j \in kept : j <= i}) = k
         IN [k \in 1..Cardinality(kept) |->
                IF nth(k) = first THEN <<<<name>>, value>> ELSE params[nth(k)]]
    ELSE Append(params, <<<<name>>, value>>)

\* The transforms editFragmentQuery is handed: the one of AppSelectionModal
\* (lines 55-59 of AppSelectionModal.tsx), and one that changes nothing.
Edits == {"appSelection", "none"}

edit(name, params) ==
    IF name = "appSelection"
    THEN set(set(params, "appPrompt", <<"false">>), "confineToRoom", <<"true">>)
    ELSE params

\* hash.substring(0, end) for end = hash.indexOf("?"): a negative end counts as 0.
substringBefore(str, at) == SubSeq(str, 1, IF at = 0 THEN 0 ELSE at - 1)

\* hash.substring(0, fragmentQueryStart) (lines 115-118)
hashPrefixOf(hashStr) == substringBefore(hashStr, indexOf(hashStr, "?"))

\* editFragmentQuery(hash, edit) (lines 105-119)
editFragmentQuery(hashStr, editName) ==
    hashPrefixOf(hashStr) \o <<"?">> \o toString(edit(editName, fragmentParams(hashStr)))

\* new ParamParser(search, hash) (lines 125-132)
ParamParser(searchStr, hashStr) ==
    [queryParams |-> queryParams(searchStr), fragmentParams |-> fragmentParams(hashStr)]

\* The condition under which hasParam and getParam log the deprecation warning.
loadedFromQuery(parser, name) ==
    ~has(parser.fragmentParams, name) /\ has(parser.queryParams, name)

\* ParamParser.hasParam
hasParam(parser, name) ==
    has(parser.fragmentParams, name) \/ has(parser.queryParams, name)

\* getParam falling back whenever the fragment's value is falsy ("||" for "??").
getParam_OrFallback(parser, name) ==
    IF get(parser.fragmentParams, name) \notin {Null, <<>>}
    THEN get(parser.fragmentParams, name)
    ELSE get(parser.queryParams, name)

\* ParamParser.getParam: fragmentParams.get(name) ?? queryParams.get(name)
getParam(parser, name) ==
    IF get(parser.fragmentParams, name) # Null
    THEN get(parser.fragmentParams, name)
    ELSE get(parser.queryParams, name)

\* ParamParser.getAllParams
getAllParams(parser, name) ==
    getAll(parser.fragmentParams, name) \o getAll(parser.queryParams, name)

\* The numbers the words of the model spell, in tenths.
Numerals == {"0", "1.5", "2"}

NumeralTenths(word) == IF word = "0" THEN 0 ELSE IF word = "1.5" THEN 15 ELSE 20

NaN == [nan |-> TRUE]

RECURSIVE parseFloat(_)
\* parseFloat(str): leading white space is skipped, then a sign and a number
\* are read; what follows the number is ignored; NaN if no number is there.
parseFloat(str) ==
    IF str = <<>> \/ str = Null THEN NaN
    ELSE IF str[1] = " " THEN parseFloat(Tail(str))
    ELSE IF str[1] \in Numerals THEN [tenths |-> NumeralTenths(str[1])]
    ELSE IF str[1] = "-" /\ Len(str) > 1 /\ str[2] \in Numerals
    THEN [tenths |-> 0 - NumeralTenths(str[2])]
    ELSE NaN

\* The parameters read with getParam, with hasParam, and with getAllParams.
StringParams == {"roomId", "password", "userId", "displayName", "deviceId",
                 "baseUrl", "lang", "analyticsID"}

GetParamNames == StringParams \cup {"enableE2e", "fontScale"}

HasParamNames == {"embed", "preload", "hideHeader", "hideScreensharing",
                  "allowIceFallback"}

\* e2eEnabled, were it true only for a parameter that is absent.
e2eEnabledOf_AbsentOnly(enableE2e) == enableE2e = Null

\* parser.getParam("enableE2e") !== "false" (line 187)
e2eEnabledOf(enableE2e) == enableE2e # <<"false">>

\* fontScale passed on as parsed.
fontScaleOf_AsParsed(fontScale) == fontScale

\* Number.isNaN(fontScale) ? null : fontScale (line 194)
fontScaleOf(fontScale) == IF fontScale = NaN THEN [null |-> TRUE] ELSE fontScale

\* getUrlParams(search, hash) (lines 169-198)
getUrlParams(searchStr, hashStr) ==
    LET parser == ParamParser(searchStr, hashStr)
        fontScale == parseFloat(IF getParam(parser, "fontScale") # Null
                                THEN getParam(parser, "fontScale")
                                ELSE <<>>)
    IN [resolved |-> TRUE,
        roomId |-> getParam(parser, "roomId"),
        password |-> getParam(parser, "password"),
        isEmbedded |-> hasParam(parser, "embed"),
        preload |-> hasParam(parser, "preload"),
        hideHeader |-> hasParam(parser, "hideHeader"),
        hideScreensharing |-> hasParam(parser, "hideScreensharing"),
        e2eEnabled |-> e2eEnabledOf(getParam(parser, "enableE2e")),
        userId |-> getParam(parser, "userId"),
        displayName |-> getParam(parser, "displayName"),
        deviceId |-> getParam(parser, "deviceId"),
        baseUrl |-> getParam(parser, "baseUrl"),
        lang |-> getParam(parser, "lang"),
        fonts |-> getAllParams(parser, "font"),
        fontScale |-> fontScaleOf(fontScale),
        analyticsID |-> getParam(parser, "analyticsID"),
        allowIceFallback |-> hasParam(parser, "allowIceFallback")]

\* The names getUrlParams makes logger.warn report: those read with getParam
\* or hasParam; getAllParams logs nothing.
getUrlParamsWarnings(searchStr, hashStr) ==
    LET parser == ParamParser(searchStr, hashStr)
    IN {name \in GetParamNames \cup HasParamNames : loadedFromQuery(parser, name)}

\* Config.defaultServerName()
defaultServerName == <<"call.example">>

\* str.startsWith(prefix) and str.includes(ch)
startsWith(str, prefix) ==
    Len(str) >= Len(prefix) /\ SubSeq(str, 1, Len(prefix)) = prefix

includes(str, ch) == indexOf(str, ch) # 0

\* pathname.split("/").pop()
lastPathComponent(pathname) ==
    LET components == split(pathname, "/") IN components[Len(components)]

\* Whether the alias is read from the path: hash === "" || hash.startsWith("#?")
aliasFromPath(hashStr) == hashStr = <<>> \/ startsWith(hashStr, <<"#", "?">>)

\* Lines 213-223: the string the alias is made of.
baseRoomString(pathname, hashStr) ==
    IF aliasFromPath(hashStr) THEN lastPathComponent(pathname) ELSE hashStr

RECURSIVE stripHashes(_)
stripHashes(str) ==
    IF str # <<>> /\ str[1] = "#" THEN stripHashes(Tail(str)) ELSE str

\* A "#" put in front of the string whatever it starts with.
ensureOneHash_Prepend(str) == <<"#">> \o str

\* baseRoomString.replace(/^#*/, "#") (line 228)
ensureOneHash(str) == <<"#">> \o stripHashes(str)

\* Lines 226-233: the alias, with the default server name if it names no server.
roomAliasOf(base) ==
    LET roomAlias == ensureOneHash(base)
    IN IF ~includes(roomAlias, ":")
       THEN roomAlias \o <<":">> \o defaultServerName
       ELSE roomAlias

\* The roomId parameter passed on as it came.
validRoomId_Unchecked(roomId) == roomId

\* Lines 238-243: a roomId that does not start with "!" is dropped (a string
\* always includes "", so the second test drops none).
validRoomId(roomId) ==
    IF roomId = Null \/ ~startsWith(roomId, <<"!">>) THEN Null ELSE roomId

\* getRoomIdentifierFromUrl(pathname, search, hash) (lines 209-256)
getRoomIdentifierFromUrl(pathname, searchStr, hashStr) ==
    LET parser == ParamParser(searchStr, hashStr)
    IN [roomAlias |-> roomAliasOf(baseRoomString(pathname, hashStr)),
        roomId |-> validRoomId(getParam(parser, "roomId")),
        viaServers |-> getAllParams(parser, "viaServers")]

\* The warning made for every roomId parameter the URL carries.
loadedByRoomId_Supplied(supplied, roomId) == supplied # Null

\* if (roomId) (line 245), on the roomId left by the validation of the
\* parameter as supplied.
loadedByRoomId(supplied, roomId) == roomId \notin {Null, <<>>}

\* What getRoomIdentifierFromUrl makes logger.warn report (lines 221-223,
\* 147-151 and 245-249).
getRoomIdentifierWarnings(pathname, searchStr, hashStr) ==
    LET parser == ParamParser(searchStr, hashStr)
        supplied == getParam(parser, "roomId")
    IN (IF aliasFromPath(hashStr) THEN {} ELSE {"Using whole hash as room name"})
       \cup (IF loadedFromQuery(parser, "roomId") THEN {"roomId"} ELSE {})
       \cup (IF loadedByRoomId(supplied, validRoomId(supplied))
             THEN {"Room loaded by room ID"}
             ELSE {})

\* The pathnames of the model: the root, a room name, a room alias under /room.
Pathnames == {<<"/">>, <<"/", "foo">>,
              <<"/", "room", "/", "foo", ":", "example.org">>}

\* The parameters a URL of the model may carry: name, whether an "=" follows,
\* and the (decoded) value.
UrlPairs ==
    {[name |-> "roomId", eq |-> TRUE, value |-> <<"!", "abc">>],
     [name |-> "roomId", eq |-> TRUE, value |-> <<>>],
     [name |-> "displayName", eq |-> TRUE, value |-> <<"a", " ", "b", "=", "c">>],
     [name |-> "fontScale", eq |-> TRUE, value |-> <<"1.5">>],
     [name |-> "embed", eq |-> FALSE, value |-> <<>>],
     [name |-> "roomId", eq |-> TRUE, value |-> <<"abc">>],
     [name |-> "fontScale", eq |-> TRUE, value |-> <<"abc">>],
     [name |-> "enableE2e", eq |-> TRUE, value |-> <<"false">>],
     [name |-> "enableE2e", eq |-> TRUE, value |-> <<"False">>],
     [name |-> "font", eq |-> TRUE, value |-> <<"Inter">>],
     [name |-> "viaServers", eq |-> TRUE, value |-> <<"hs2">>],
     [name |-> "confineToRoom", eq |-> TRUE, value |-> <<"false">>],
     [name |-> "fontScale", eq |-> TRUE, value |-> <<"0">>],
     [name |-> "fontScale", eq |-> TRUE, value |-> <<"-", "2">>]}

\* The hash before its embedded query: none, a bare "#", or a room name or alias.
HashPrefixes == {<<>>, <<"#">>, <<"#", "room", ":", "hs">>, <<"#", "foo">>,
                 <<"#", "#", "foo", ":", "example.org">>}

\* A query written out: name=value pairs joined by "&", spaces written as "+".
RECURSIVE serialize(_)
serialize(pairs) ==
    IF pairs = <<>> THEN <<>>
    ELSE LET p == pairs[1]
             encoded == [i \in 1..Len(p.value) |->
                            IF p.value[i] = " " THEN "+" ELSE p.value[i]]
             one == <<p.name>> \o (IF p.eq THEN <<"=">> \o encoded ELSE <<>>)
         IN IF Len(pairs) = 1 THEN one
            ELSE one \o <<"&">> \o serialize(Tail(pairs))

\* The URLs of the model: a page query (absent, or "?" and its pairs) and a
\* hash (absent, or a prefix and possibly "?" and its pairs).
InitUrl ==
    /\ \E a \in 0..MaxPairs : \E b \in 0..(MaxPairs - a) :
         \E sp \in [1..a -> UrlPairs], hq \in [1..b -> UrlPairs],
            hs \in (IF a = 0 THEN BOOLEAN ELSE {TRUE}),
            hh \in (IF b = 0 THEN BOOLEAN ELSE {TRUE}) :
           \E hp \in (IF hh THEN HashPrefixes \ {<<>>} ELSE HashPrefixes) :
              location = [searchPairs |-> sp, hasSearch |-> hs, hashPrefix |-> hp,
                          hashPairs |-> hq, hasHashQuery |-> hh]
    /\ search = IF location.hasSearch
                THEN <<"?">> \o serialize(location.searchPairs)
                ELSE <<>>
    /\ hash = location.hashPrefix \o
                (IF location.hasHashQuery
                 THEN <<"?">> \o serialize(location.hashPairs)
                 ELSE <<>>)
    /\ urlParams = [resolved |-> FALSE]
    /\ warned = {}
    /\ roomIdentifier = [resolved |-> FALSE]
    /\ editedHash = [resolved |-> FALSE]
    /\ IdleLoad
    /\ IdleView
    /\ IdleFocus
    /\ IdleComponents
    /\ IdleSkipLobby

\* One function of UrlParams.ts is applied to a location.
NoUrlCall == ~urlParams.resolved /\ ~roomIdentifier.resolved /\ ~editedHash.resolved

\* getUrlParams is called on the location.
ResolveUrlParams ==
    /\ NoUrlCall
    /\ urlParams' = getUrlParams(search, hash)
    /\ warned' = warned \cup getUrlParamsWarnings(search, hash)
    /\ UNCHANGED <<location, search, hash, roomIdentifier, editedHash, notUrl>>

\* getRoomIdentifierFromUrl is called on the location.
ResolveRoomIdentifier ==
    /\ NoUrlCall
    /\ \E pathname \in Pathnames :
        /\ roomIdentifier' = [resolved |-> TRUE, pathname |-> pathname] @@
                                getRoomIdentifierFromUrl(pathname, search, hash)
        /\ warned' = warned \cup getRoomIdentifierWarnings(pathname, search, hash)
    /\ UNCHANGED <<location, search, hash, urlParams, editedHash, notUrl>>

\* editFragmentQuery is called on the hash of the location.
EditFragmentQuery ==
    /\ NoUrlCall
    /\ \E e \in Edits :
        editedHash' = [resolved |-> TRUE, edit |-> e, hash |-> editFragmentQuery(hash, e)]
    /\ UNCHANGED <<location, search, hash, urlParams, warned, roomIdentifier, notUrl>>

NextUrl ==
    \/ ResolveUrlParams
    \/ ResolveRoomIdentifier
    \/ EditFragmentQuery

SpecUrl == InitUrl /\ [][NextUrl]_vars

(***************************************************************************)
(*                 participatingMembers of GroupCallView                   *)
(***************************************************************************)
\* How many memberships the session may hold.
MaxSessionMemberships == 3

UserIds == {"@alice:example.org", "@bob:example.org"}

DeviceIds == {"DEVICE1", "DEVICE2"}

\* A call membership: one device of one room member.
SessionMemberships ==
    {[member |-> [userId |-> u], deviceId |-> d] : u \in UserIds, d \in DeviceIds}

\* The lists of memberships a session may hold.
MembershipLists ==
    UNION {[1..n -> SessionMemberships] : n \in 0..MaxSessionMemberships}

add_Forgotten(addedUserIds, userId) == addedUserIds

\* addedUserIds.add(userId)
add(addedUserIds, userId) == addedUserIds \cup {userId}

\* The loop over the memberships: a member is pushed when its user id has
\* not been added yet.
RECURSIVE addMembers(_, _, _)
addMembers(ms, addedUserIds, members) ==
    IF ms = <<>>
    THEN members
    ELSE LET membership == Head(ms)
         IN IF membership.member.userId \notin addedUserIds
            THEN addMembers(Tail(ms), add(addedUserIds, membership.member.userId),
                            Append(members, membership.member))
            ELSE addMembers(Tail(ms), addedUserIds, members)

\* The callback of the useMemo.
participatingMembersOf(ms) == addMembers(ms, {}, <<>>)

InitMembers ==
    /\ sessionMemberships \in MembershipLists
    /\ participatingMembers = [rendered |-> FALSE]
    /\ IdleLoad
    /\ IdleView
    /\ IdleFocus
    /\ IdleUrl
    /\ IdleList
    /\ IdleError
    /\ IdleSkipLobby

\* The first render: the useMemo computes the list.
RenderMembers ==
    /\ ~participatingMembers.rendered
    /\ participatingMembers' =
           [rendered |-> TRUE, members |-> participatingMembersOf(sessionMemberships)]
    /\ UNCHANGED <<sessionMemberships, notMembers>>

\* The session's memberships change: the hook returns another list, and the
\* render that follows recomputes the useMemo.
SessionMembershipsChange ==
    /\ participatingMembers.rendered
    /\ \E ms \in MembershipLists :
        /\ ms # sessionMemberships
        /\ sessionMemberships' = ms
        /\ participatingMembers' =
               [rendered |-> TRUE, members |-> participatingMembersOf(ms)]
    /\ UNCHANGED notMembers

NextMembers ==
    \/ RenderMembers
    \/ SessionMembershipsChange

SpecMembers == InitMembers /\ [][NextMembers]_vars

(***************************************************************************)
(*                               CallList                                  *)
(***************************************************************************)
\* How many rooms the list may be given.
MaxRooms == 4

\* The entries of the rooms prop.
GroupCallRooms ==
    {[roomAlias |-> "#one:example.org", roomName |-> "One",
      room |-> [roomId |-> "!one:example.org"]],
     [roomAlias |-> "#two:example.org", roomName |-> "Two",
      room |-> [roomId |-> "!two:example.org"]],
     [roomAlias |-> "#three:example.org", roomName |-> "Three",
      room |-> [roomId |-> "!three:example.org"]]}

RoomLists == UNION {[1..n -> GroupCallRooms] : n \in 0..MaxRooms}

callTileSpacer == [element |-> "div", className |-> "callTileSpacer"]

callTileSpacers_FromThree(length) ==
    IF length >= 3 THEN <<callTileSpacer, callTileSpacer>> ELSE <<>>

\* {rooms.length > 3 && (<> two callTileSpacer divs </>)} of home/CallList.tsx
callTileSpacers(length) ==
    IF length > 3 THEN <<callTileSpacer, callTileSpacer>> ELSE <<>>

\* The same expression in the CallList of UrlParams.ts.
callTileSpacersByRoomId(length) ==
    IF length > 3 THEN <<callTileSpacer, callTileSpacer>> ELSE <<>>

\* CallList of home/CallList.tsx: the children of the callList div.
CallList(rs) ==
    [i \in 1..Len(rs) |->
        [element |-> "CallTile", key |-> rs[i].roomAlias, name |-> rs[i].roomName,
         roomId |-> rs[i].room.roomId]]
    \o callTileSpacers(Len(rs))

\* CallList of UrlParams.ts: the tiles are keyed by room id and are given
\* the room.
CallListByRoomId(rs) ==
    [i \in 1..Len(rs) |->
        [element |-> "CallTile", key |-> rs[i].room.roomId, name |-> rs[i].roomName,
         room |-> rs[i].room]]
    \o callTileSpacersByRoomId(Len(rs))

InitList ==
    /\ rooms \in RoomLists
    /\ callList = [rendered |-> FALSE]
    /\ IdleLoad
    /\ IdleView
    /\ IdleFocus
    /\ IdleUrl
    /\ IdleMembers
    /\ IdleError
    /\ IdleSkipLobby

\* CallList of home/CallList.tsx renders the rooms.
RenderCallList ==
    /\ ~callList.rendered
    /\ callList' = [rendered |-> TRUE, keyedBy |-> "roomAlias", children |-> CallList(rooms)]
    /\ UNCHANGED <<rooms, notList>>

\* CallList of UrlParams.ts renders the rooms.
RenderCallListByRoomId ==
    /\ ~callList.rendered
    /\ callList' = [rendered |-> TRUE, keyedBy |-> "roomId",
                    children |-> CallListByRoomId(rooms)]
    /\ UNCHANGED <<rooms, notList>>

\* The rooms prop changes: the list that is rendered renders again.
RoomsChange ==
    /\ callList.rendered
    /\ \E rs \in RoomLists :
        /\ rs # rooms
        /\ rooms' = rs
        /\ callList' = [callList EXCEPT !.children =
                            IF callList.keyedBy = "roomAlias"
                            THEN CallList(rs) ELSE CallListByRoomId(rs)]
    /\ UNCHANGED notList

NextList ==
    \/ RenderCallList
    \/ RenderCallListByRoomId
    \/ RoomsChange

SpecList == InitList /\ [][NextList]_vars

(***************************************************************************)
(*                               ErrorView                                 *)
(***************************************************************************)
\* How many times ErrorView may render.
MaxRenders == 5

\* The messages GroupCallView creates its errors with.
ErrorMessages == {"No E2EE key provided", "You need to enable E2EE to join."}

\* new Error(message): an object that is no object created before.
NewError(message) == [id |-> created + 1, message |-> message]

depsChanged_Always(prev, next) == TRUE

\* useEffect(..., [error]): the effect runs after a render whose error is not
\* the error of the render before (after the first render, always).
depsChanged(prev, next) == prev # next

\* The effect: logger.error(error); Sentry.captureException(error).
Report(error) == <<[sink |-> "logger.error", error |-> error],
                   [sink |-> "Sentry.captureException", error |-> error]>>

\* One render of ErrorView with the given error, and the effect after it.
RenderErrorView(error) ==
    /\ errorView' = [mounted |-> TRUE, error |-> error, deps |-> error,
                     renders |-> errorView.renders + 1]
    /\ reported' = IF depsChanged(errorView.deps, error)
                   THEN reported \o Report(error)
                   ELSE reported

InitError ==
    /\ errorView = [mounted |-> FALSE, error |-> [none |-> TRUE],
                    deps |-> [none |-> TRUE], renders |-> 0]
    /\ created = 0
    /\ reported = <<>>
    /\ IdleLoad
    /\ IdleView
    /\ IdleFocus
    /\ IdleUrl
    /\ IdleMembers
    /\ IdleList
    /\ IdleSkipLobby

\* GroupCallView renders <ErrorView error={new Error(...)} /> where it
\* rendered something else before.
MountErrorView ==
    /\ ~errorView.mounted
    /\ errorView.renders < MaxRenders
    /\ \E message \in ErrorMessages :
        /\ RenderErrorView(NewError(message))
        /\ created' = created + 1
    /\ UNCHANGED notError

\* GroupCallView renders again and still returns an ErrorView: the error
\* is created anew.
ParentRenders ==
    /\ errorView.mounted
    /\ errorView.renders < MaxRenders
    /\ \E message \in ErrorMessages :
        /\ RenderErrorView(NewError(message))
        /\ created' = created + 1
    /\ UNCHANGED notError

\* ErrorView renders again on its own (useLocation or useTranslation
\* changed): its props are the props of the render before.
ErrorViewRenders ==
    /\ errorView.mounted
    /\ errorView.renders < MaxRenders
    /\ RenderErrorView(errorView.error)
    /\ UNCHANGED <<created, notError>>

\* GroupCallView returns something else: the effect has no cleanup.
UnmountErrorView ==
    /\ errorView.mounted
    /\ errorView' = [errorView EXCEPT !.mounted = FALSE, !.error = [none |-> TRUE],
                                      !.deps = [none |-> TRUE]]
    /\ UNCHANGED <<created, reported, notError>>

NextError ==
    \/ MountErrorView
    \/ ParentRenders
    \/ ErrorViewRenders
    \/ UnmountErrorView

SpecError == InitError /\ [][NextError]_vars

(***************************************************************************)
(*               The skip-lobby effect of GroupCallView                    *)
(***************************************************************************)
\* How many times defaultDeviceSetup may be called in one behaviour.
MaxSetups == 2

\* The device names a JoinCall request may carry (null: none requested).
RequestedNames == {"null", "Built-in", "Unknown"}

\* ev.detail.data of a JoinCall request.
JoinCallData == [audioInput : RequestedNames, videoInput : {"null", "Built-in"}]

\* What findDeviceByName may resolve with: a device id, or undefined.
FoundDevices == {"undefined", "device-1"}

\* defaultDeviceSetup(requestedDeviceData) up to its first await (line 147).
NewSetup(requestedDeviceData) ==
    [requested |-> requestedDeviceData, pc |-> "getLocalDevices"]

\* Lines 149-150 and 169-170: nothing requested, the input is disabled.
\* Lines 157-159 and 177-179: the name is unknown, a warning and disabled.
\* Lines 160-166 and 180-186: the device is selected and the input enabled.
applyDevice(m, kind, input, name, deviceId) ==
    IF name = "null"
    THEN [m EXCEPT ![kind] = "disabled"]
    ELSE IF deviceId = "undefined"
    THEN [m EXCEPT ![kind] = "disabled", !.warned = @ \cup {<<"Unknown " \o kind \o " input", name>>}]
    ELSE [m EXCEPT ![kind] = "enabled", ![input] = deviceId]

\* The video half of defaultDeviceSetup (lines 169-187) up to its await.
videoHalf(k, m) ==
    IF setups[k].requested.videoInput = "null"
    THEN /\ media' = applyDevice(m, "video", "videoInput", "null", "undefined")
         /\ setups' = [setups EXCEPT ![k].pc = "done"]
    ELSE /\ media' = m
         /\ setups' = [setups EXCEPT ![k].pc = "findVideo"]

\* defaultDeviceSetup(data); enterRTCSession(rtcSession) (lines 192-193 and
\* 204-205): the call of defaultDeviceSetup is not awaited, so it returns at
\* the setup's first await and the session is entered with the setup there.
StartAndEnter(data) ==
    LET setup == NewSetup(data)
    IN /\ setups' = Append(setups, setup)
       /\ entered' = Append(entered, [setup |-> Len(setups) + 1,
                                      setupPc |-> setup.pc,
                                      audio |-> media.audio, video |-> media.video])

InitSkipLobby ==
    /\ skipProps \in [skipLobby : BOOLEAN, preload : BOOLEAN, widget : BOOLEAN]
    \* skip-lobby mode implies running embedded
    /\ skipProps.skipLobby => skipProps.widget
    /\ skipEffect = [ran |-> FALSE, onJoin |-> FALSE]
    /\ setups = <<>>
    /\ media = InitialMedia
    /\ entered = <<>>
    /\ IdleLoad
    /\ IdleView
    /\ IdleFocus
    /\ IdleUrl
    /\ IdleComponents

\* The body of the effect (lines 138-207) with the props of a render.
EffectBody(p) ==
    IF p.skipLobby
    THEN IF p.widget /\ p.preload
         THEN /\ skipEffect' = [ran |-> TRUE, onJoin |-> TRUE]
              /\ UNCHANGED <<setups, entered>>
         ELSE /\ skipEffect' = [ran |-> TRUE, onJoin |-> FALSE]
              /\ StartAndEnter([audioInput |-> "null", videoInput |-> "null"])
    ELSE /\ skipEffect' = [ran |-> TRUE, onJoin |-> FALSE]
         /\ UNCHANGED <<setups, entered>>

\* The effect of lines 137-208 after the first render.
SkipLobbyEffect ==
    /\ ~skipEffect.ran
    /\ Len(setups) < MaxSetups
    /\ EffectBody(skipProps)
    /\ UNCHANGED <<skipProps, media, notSkipLobby>>

\* A render with another preload or skipLobby (the dependencies, line 208):
\* the cleanup removes onJoin (lines 200-202) and the effect runs again.
SkipPropsChange ==
    /\ skipEffect.ran
    /\ Len(setups) < MaxSetups
    /\ \E pre \in BOOLEAN, skip \in BOOLEAN :
        /\ <<pre, skip>> # <<skipProps.preload, skipProps.skipLobby>>
        /\ skip => skipProps.widget
        /\ skipProps' = [skipProps EXCEPT !.preload = pre, !.skipLobby = skip]
        /\ EffectBody(skipProps')
    /\ UNCHANGED <<media, notSkipLobby>>

\* The host sends JoinCall: onJoin (lines 191-198) up to its await.
JoinCallRequested ==
    /\ skipEffect.onJoin
    /\ Len(setups) < MaxSetups
    /\ \E data \in JoinCallData : StartAndEnter(data)
    /\ UNCHANGED <<skipProps, skipEffect, media, notSkipLobby>>

\* Room.getLocalDevices resolves: the audio half (lines 148-167) runs up to its
\* await, or through to the video half if no audio input was requested.
LocalDevicesResolve ==
    \E k \in 1..Len(setups) :
        /\ setups[k].pc = "getLocalDevices"
        /\ IF setups[k].requested.audioInput = "null"
           THEN videoHalf(k, applyDevice(media, "audio", "audioInput", "null", "undefined"))
           ELSE /\ setups' = [setups EXCEPT ![k].pc = "findAudio"]
                /\ UNCHANGED media
        /\ UNCHANGED <<skipProps, skipEffect, entered, notSkipLobby>>

\* Room.getLocalDevices rejects: the setup ends, its rejection unhandled.
LocalDevicesReject ==
    \E k \in 1..Len(setups) :
        /\ setups[k].pc = "getLocalDevices"
        /\ setups' = [setups EXCEPT ![k].pc = "rejected"]
        /\ UNCHANGED <<skipProps, skipEffect, media, entered, notSkipLobby>>

\* findDeviceByName resolves for the audio input (lines 152-166), and the video
\* half runs up to its await.
FindAudioResolves ==
    \E k \in 1..Len(setups), deviceId \in FoundDevices :
        /\ setups[k].pc = "findAudio"
        /\ videoHalf(k, applyDevice(media, "audio", "audioInput",
                                    setups[k].requested.audioInput, deviceId))
        /\ UNCHANGED <<skipProps, skipEffect, entered, notSkipLobby>>

\* findDeviceByName resolves for the video input (lines 172-186).
FindVideoResolves ==
    \E k \in 1..Len(setups), deviceId \in FoundDevices :
        /\ setups[k].pc = "findVideo"
        /\ media' = applyDevice(media, "video", "videoInput",
                                setups[k].requested.videoInput, deviceId)
        /\ setups' = [setups EXCEPT ![k].pc = "done"]
        /\ UNCHANGED <<skipProps, skipEffect, entered, notSkipLobby>>

NextSkipLobby ==
    \/ SkipLobbyEffect
    \/ SkipPropsChange
    \/ JoinCallRequested
    \/ LocalDevicesResolve
    \/ LocalDevicesReject
    \/ FindAudioResolves
    \/ FindVideoResolves

SpecSkipLobby == InitSkipLobby /\ [][NextSkipLobby]_vars

\* The parts side by side: a behaviour is a behaviour of one of them.
Init ==
    \/ InitLoad
    \/ InitView
    \/ InitFocus
    \/ InitUrl
    \/ InitMembers
    \/ InitList
    \/ InitError
    \/ InitSkipLobby

Next ==
    \/ NextLoad
    \/ NextView
    \/ NextFocus
    \/ NextUrl
    \/ NextMembers
    \/ NextList
    \/ NextError
    \/ NextSkipLobby

Spec == Init /\ [][Next]_vars

(***************************************************************************)
(*                  Properties of useLoadGroupCall                         *)
(***************************************************************************)

\* A "not found" style failure, read off the error alone.
IsNotFoundStyle(error) ==
    \/ error.errcode = "M_NOT_FOUND"
    \/ \E i \in DOMAIN error.message : error.message[i] = "Failed to fetch alias"

IsLocalIdent(r) == runs[r].deps.roomIdOrAlias.domain = "hs1"

SharedKeysOf(roomId) == {e \in localStorage : e[1] = [sharedKeyOf |-> roomId]}

InCreateBranch(r) ==
    \/ runs[r].pc \in {"createRoom", "waitReadyCreated"}
    \/ runs[r].pc = "done" /\ runs[r].error.op \in {"createRoom", "waitReadyCreated"}
    \/ runs[r].pc = "done" /\ runs[r].outcome = "loaded" /\ runs[r].error # NoError

\* C1: a run whose join attempt failed with a not-found error on a local
\* identifier issues exactly one createRoom call (such a failure never ends the
\* run as failed); with encryption enabled a 32-character shared key is in local
\* storage under the created room's key by the time the run reports loaded, and
\* with encryption off no key is ever written for that room.
C1_CreateOnceAndStoreKey ==
    \A r \in RunIds :
        /\ runs[r].createRoomCalls = IF InCreateBranch(r) THEN 1 ELSE 0
        /\ ~ ( /\ runs[r].outcome = "failed"
               /\ runs[r].error.op \in {"joinRoom", "waitReadyJoined"}
               /\ IsNotFoundStyle(runs[r].error)
               /\ IsLocalIdent(r) )
        /\ ( /\ runs[r].outcome = "loaded"
             /\ runs[r].createRoomCalls = 1
             /\ runs[r].deps.e2eeEnabled )
           => SharedKeysOf([created |-> r]) = {<<[sharedKeyOf |-> [created |-> r]], [len |-> 32]>>}
        /\ ~runs[r].deps.e2eeEnabled => SharedKeysOf([created |-> r]) = {}

C1_Witness ==
    \E r \in RunIds :
        /\ runs[r].outcome = "loaded"
        /\ runs[r].createRoomCalls = 1
        /\ runs[r].deps.e2eeEnabled
        /\ IsNotFoundStyle(runs[r].error)
        /\ SharedKeysOf([created |-> r]) # {}
        /\ state.kind = "loaded"

\* C2: createRoom is issued only by a run whose joinRoom request itself failed
\* (a run whose joinRoom succeeded never issues it, whatever the readiness wait does).
C2_CreateOnlyAfterJoinRoomFailed ==
    \A r \in RunIds :
        runs[r].pc = "createRoom" => runs[r].error.op = "joinRoom"

C4_FailureIsTerminal ==
    [][\A r \in RunIds :
        /\ runs[r].pc = "done" => runs'[r] = runs[r]
        /\ (runs[r].pc = "joinRoom" /\ runs'[r].pc = "createRoom")
              => IsNotFoundStyle(runs'[r].error) /\ IsLocalIdent(r)
        /\ (runs[r].pc = "createRoom" /\ runs'[r].error # runs[r].error)
              => runs'[r].outcome = "failed"
        /\ (runs[r].pc # "done" /\ runs'[r].outcome = "failed")
              => /\ state' = [kind |-> "failed", error |-> runs'[r].error]
                 /\ runs'[r].error.run = r
                 /\ runs'[r].error.op = runs[r].pc
                 /\ runs'[r].pc = "done"
                 /\ runs'[r].joinRoomCalls = runs[r].joinRoomCalls
                 /\ runs'[r].createRoomCalls = runs[r].createRoomCalls
                 /\ runs[r].pc = "joinRoom" => runs'[r].createRoomCalls = 0
      ]_vars

C4_Witness ==
    \E r \in RunIds :
        /\ runs[r].outcome = "failed"
        /\ runs[r].error.op = "createRoom"
        /\ state = [kind |-> "failed", error |-> runs[r].error]
        /\ \E q \in RunIds :
              /\ runs[q].outcome = "failed"
              /\ runs[q].error.op = "joinRoom"
              /\ runs[q].createRoomCalls = 0


(***************************************************************************)
(*                     Properties of GroupCallView                         *)
(***************************************************************************)

NoKeyGate ==
    e2ee.e2eeEnabled /\ e2ee.isRoomE2EE /\ e2ee.e2eeSharedKey = "undefined"

\* C5: whenever the encryption setting is on, the room is encrypted and no
\* shared key has resolved, the view renders the "No E2EE key provided" error,
\* whatever isJoined, left, preload and skipLobby are (so neither the active
\* call, the lobby nor the post-call screen).
C5_NoKeyErrorWhateverJoinState ==
    (mounted /\ NoKeyGate) => Presentation = "ErrorView:NoE2EEKey"

C5_Witness ==
    /\ mounted
    /\ NoKeyGate
    /\ rtc = "joined"
    /\ left
    /\ props.skipLobby

\* The conditions of the seven presentations, in the order of priority, and what
\* each of them shows.
PriorityConditions ==
    << NoKeyGate,
       e2ee.isRoomE2EE /\ ~env.e2eeSupported,
       e2ee.isRoomE2EE /\ ~e2ee.e2eeEnabled,
       rtc \in {"joined", "leaving"},
       left,
       props.preload,
       TRUE >>

PriorityScreens ==
    << {"ErrorView:NoE2EEKey"}, {"IncompatibleBrowser"}, {"ErrorView:EnableE2EE"},
       {"ActiveCall"}, {"CallEndedView", "null"}, {"null"}, {"LobbyView"} >>

FirstMatching ==
    CHOOSE i \in 1..7 :
        /\ PriorityConditions[i]
        /\ \A j \in 1..(i - 1) : ~PriorityConditions[j]

\* C6: for every combination of the inputs the view renders the first matching
\* presentation of: no-key error, incompatible browser, encryption-disabled
\* error, active call, post-call screen or nothing, nothing (preload), lobby.
C6_FirstMatchingPresentation ==
    mounted => Presentation \in PriorityScreens[FirstMatching]

C6_Witness ==
    /\ mounted
    /\ Presentation = "IncompatibleBrowser"
    /\ ~e2ee.e2eeEnabled
    /\ rtc = "joined"
    /\ left
    /\ props.preload

IndicesOf(did, effect) == {j \in 1..Len(did) : did[j] = effect}

Before(did, first, second) ==
    \A j \in IndicesOf(did, first), k \in IndicesOf(did, second) : j < k

\* C7: an embedded onLeave records the call-ended event, leaves the session,
\* and only after its 10 ms timer has fired sends setAlwaysOnScreen(false), logs
\* out of analytics, and sends HangupCall to the host, in that order.
C7_EmbeddedLeaveOrder ==
    \A i \in 1..Len(leaves) :
        env.widget =>
            LET did == leaves[i].did
                late == {"setAlwaysOnScreen(false)", "PosthogAnalytics.logout",
                         "send HangupCall"}
            IN /\ Cardinality(IndicesOf(did, "eventCallEnded.track")) = 1
               /\ Cardinality(IndicesOf(did, "leaveRTCSession")) = 1
               /\ Before(did, "eventCallEnded.track", "leaveRTCSession")
               /\ Before(did, "leaveRTCSession", "timeout")
               /\ \A e \in late :
                     /\ Before(did, "timeout", e)
                     /\ Cardinality(IndicesOf(did, e)) =
                            IF leaves[i].pc = "done" THEN 1 ELSE 0
               /\ Cardinality(IndicesOf(did, "timeout")) =
                      IF leaves[i].pc = "done" THEN 1 ELSE 0
               /\ Before(did, "setAlwaysOnScreen(false)", "PosthogAnalytics.logout")
               /\ Before(did, "PosthogAnalytics.logout", "send HangupCall")

C7_Witness ==
    \E i \in 1..Len(leaves) :
        /\ env.widget
        /\ leaves[i].pc = "done"
        /\ Len(hostLog) > 0
        /\ hostLog[Len(hostLog)] = "send HangupCall"


(***************************************************************************)
(*                     Properties of useActiveFocus                        *)
(***************************************************************************)

\* Two foci are structurally equal: both absent, or the same fields.
SameFocus(a, b) ==
    \/ "undefined" \in DOMAIN a /\ "undefined" \in DOMAIN b
    \/ /\ "undefined" \notin DOMAIN a
       /\ "undefined" \notin DOMAIN b
       /\ \A k \in {"livekit_service_url", "livekit_alias"} : a[k] = b[k]

\* C8: a MembershipsChanged notification whose recomputed focus is structurally
\* equal to the published focus replaces nothing, and the published value is
\* only ever replaced by one that differs from it structurally.
C8_NoRedundantFocusUpdate ==
    [][ /\ (focusOp' = "notified" /\ SameFocus(activeFocus, newActiveFocus'))
             => (focusState' = focusState /\ activeFocus' = activeFocus)
        /\ (focusOp # "none" /\ focusState' # focusState)
             => (~SameFocus(activeFocus, newActiveFocus') /\ focusState' = newActiveFocus')
        /\ (focusOp # "none" /\ activeFocus' # activeFocus)
             => ~SameFocus(activeFocus, activeFocus')
      ]_vars

C8_Witness ==
    /\ focusOp = "notified"
    /\ "obj" \in DOMAIN activeFocus
    /\ "obj" \in DOMAIN newActiveFocus
    /\ newActiveFocus # activeFocus
    /\ SameFocus(activeFocus, newActiveFocus)
    /\ focusState = activeFocus

\* The membership of the session with the smallest createdTs.
OldestOf(ms) ==
    CHOOSE m \in {ms[i] : i \in 1..Len(ms)} :
        \A i \in 1..Len(ms) : m.createdTs <= ms[i].createdTs

\* C9: the value getActiveFocus computes, at mount and on each notification, is
\* the first advertised focus of the oldest membership at that time, and is
\* undefined when there is no membership or the oldest advertises no focus.
C9_FocusOfOldestMembership ==
    focusOp \in {"mount", "notified"} =>
        newActiveFocus =
            IF Len(memberships) = 0 THEN [undefined |-> TRUE]
            ELSE IF OldestOf(memberships).foci = <<>> THEN [undefined |-> TRUE]
            ELSE Head(OldestOf(memberships).foci)

C9_Witness ==
    /\ focusOp = "notified"
    /\ Len(memberships) = 2
    /\ Len(memberships[1].foci) = 2
    /\ memberships[2].foci # <<>>
    /\ newActiveFocus = memberships[1].foci[1]
    /\ ~SameFocus(newActiveFocus, memberships[2].foci[1])


(***************************************************************************)
(*                       Properties of getUrlParams                        *)
(***************************************************************************)

Named(pairs, name) == {i \in 1..Len(pairs) : pairs[i].name = name}

FirstValue(pairs, name) ==
    pairs[CHOOSE i \in Named(pairs, name) : \A j \in Named(pairs, name) : i <= j].value

\* What the URL as put together carries for a name: the hash-embedded query's
\* value if the key is there, else the page query's, else nothing.
CarriedValue(name) ==
    IF Named(location.hashPairs, name) # {}
    THEN FirstValue(location.hashPairs, name)
    ELSE IF Named(location.searchPairs, name) # {}
    THEN FirstValue(location.searchPairs, name)
    ELSE <<"<null>">>

\* The number a carried value spells, in tenths, or absent if it spells none.
NumberSpelled(value) ==
    IF value = <<"1.5">> THEN [tenths |-> 15]
    ELSE IF value = <<"0">> THEN [tenths |-> 0]
    ELSE IF value = <<"-", "2">> THEN [tenths |-> 0 - 20]
    ELSE [null |-> TRUE]

\* C10: every single-valued parameter resolves to the hash-embedded query's
\* value when the key is present there, otherwise to the page query's,
\* otherwise to null; with no hash-embedded query and the page query
\* roomId=!abc the roomId is "!abc" and a deprecation warning is logged.
C10_HashQueryFirst ==
    urlParams.resolved =>
        /\ \A name \in {"roomId", "password", "userId", "displayName", "deviceId",
                        "baseUrl", "lang", "analyticsID"} :
              urlParams[name] = CarriedValue(name)
        /\ urlParams.fontScale = NumberSpelled(CarriedValue("fontScale"))
        /\ ( /\ search = <<"?", "roomId", "=", "!", "abc">>
             /\ \A i \in 1..Len(hash) : hash[i] # "?" )
           => (urlParams.roomId = <<"!", "abc">> /\ "roomId" \in warned)

C10_Witness ==
    /\ urlParams.resolved
    /\ Named(location.hashPairs, "roomId") # {}
    /\ Named(location.searchPairs, "roomId") # {}
    /\ urlParams.roomId = <<>>
    /\ FirstValue(location.searchPairs, "roomId") = <<"!", "abc">>

\* C11: e2eEnabled is false exactly when the effective enableE2e value (the
\* hash-embedded one if the key is there, else the page query's) is the string
\* "false"; it is true when the parameter is absent and for every other value.
C11_E2eDisabledOnlyByFalse ==
    urlParams.resolved =>
        (urlParams.e2eEnabled <=> CarriedValue("enableE2e") # <<"false">>)

C11_Witness ==
    /\ urlParams.resolved
    /\ urlParams.e2eEnabled
    /\ Named(location.hashPairs, "enableE2e") # {}
    /\ FirstValue(location.hashPairs, "enableE2e") = <<"False">>
    /\ Named(location.searchPairs, "enableE2e") # {}
    /\ FirstValue(location.searchPairs, "enableE2e") = <<"false">>

\* The part of a pathname after its last "/".
AfterLastSlash(path) ==
    LET slashes == {i \in 1..Len(path) : path[i] = "/"}
        last == IF slashes = {} THEN 0
                ELSE CHOOSE i \in slashes : \A j \in slashes : j <= i
    IN SubSeq(path, last + 1, Len(path))

\* The candidate the alias is made of: the last path component when the hash is
\* empty or only carries a query, the whole hash otherwise.
Candidate ==
    IF hash = <<>> \/ (Len(hash) >= 2 /\ hash[1] = "#" /\ hash[2] = "?")
    THEN AfterLastSlash(roomIdentifier.pathname)
    ELSE hash

\* The candidate with its leading "#"s replaced by one "#".
Normalized(cand) ==
    LET hashes == {i \in 0..Len(cand) : \A j \in 1..i : cand[j] = "#"}
        n == CHOOSE i \in hashes : \A j \in hashes : j <= i
    IN <<"#">> \o SubSeq(cand, n + 1, Len(cand))

\* C12: the alias starts with exactly one "#"; it is the normalized candidate
\* followed by ":" and the default server name exactly when the candidate
\* contains no ":", and the normalized candidate itself otherwise ("foo" gives
\* "#foo:<default server name>", "foo:example.org" gives "#foo:example.org").
C12_AliasNormalized ==
    roomIdentifier.resolved =>
        LET alias == roomIdentifier.roomAlias
            hasColon == \E i \in 1..Len(Candidate) : Candidate[i] = ":"
        IN /\ alias[1] = "#"
           /\ Len(alias) >= 2 => alias[2] # "#"
           /\ (alias = Normalized(Candidate) \o <<":", "call.example">>) <=> ~hasColon
           /\ hasColon => alias = Normalized(Candidate)
           /\ Candidate = <<"foo">> => alias = <<"#", "foo", ":", "call.example">>
           /\ Candidate = <<"foo", ":", "example.org">>
                 => alias = <<"#", "foo", ":", "example.org">>

C12_Witness ==
    /\ roomIdentifier.resolved
    /\ hash = <<"#", "#", "foo", ":", "example.org">>
    /\ roomIdentifier.roomAlias = <<"#", "foo", ":", "example.org">>
    /\ roomIdentifier.pathname = <<"/", "foo">>

\* C13: the roomId returned is absent or begins with "!": a supplied roomId
\* that does not begin with "!" resolves to absent whatever the other
\* parameters are, and one that begins with "!" is returned unchanged.
C13_RoomIdValidated ==
    roomIdentifier.resolved =>
        LET supplied == CarriedValue("roomId")
        IN /\ \/ roomIdentifier.roomId = <<"<null>">>
              \/ Len(roomIdentifier.roomId) > 0 /\ roomIdentifier.roomId[1] = "!"
           /\ roomIdentifier.roomId =
                 IF supplied # <<>> /\ supplied[1] = "!" THEN supplied ELSE <<"<null>">>

C13_Witness ==
    /\ roomIdentifier.resolved
    /\ CarriedValue("roomId") = <<"abc">>
    /\ roomIdentifier.roomId = <<"<null>">>
    /\ Len(location.searchPairs) = 1
    /\ location.searchPairs[1].name = "viaServers"
    /\ roomIdentifier.viaServers = << <<"hs2">> >>

\* C14: fontScale never resolves to a not-a-number value: a fontScale that
\* does not parse as a number, or is missing, resolves to absent, and
\* fontScale=1.5 resolves to 1.5.
C14_FontScaleNeverNaN ==
    urlParams.resolved =>
        /\ "nan" \notin DOMAIN urlParams.fontScale
        /\ CarriedValue("fontScale") \in {<<"<null>">>, <<"abc">>}
              => urlParams.fontScale = [null |-> TRUE]
        /\ CarriedValue("fontScale") = <<"1.5">>
              => urlParams.fontScale = [tenths |-> 15]

C14_Witness ==
    /\ urlParams.resolved
    /\ Named(location.hashPairs, "fontScale") # {}
    /\ FirstValue(location.hashPairs, "fontScale") = <<"abc">>
    /\ Named(location.searchPairs, "fontScale") # {}
    /\ FirstValue(location.searchPairs, "fontScale") = <<"1.5">>
    /\ urlParams.fontScale = [null |-> TRUE]

\* The URL carries the key in its page query only.
OnlyInPageQuery(name) ==
    Named(location.hashPairs, name) = {} /\ Named(location.searchPairs, name) # {}

\* C15: a deprecation warning is logged for a named parameter exactly when it
\* is taken from the page query because the hash-embedded query does not carry
\* the key; this holds for every parameter the resolver reads, the repeatable
\* font and viaServers included.
C15_WarnsOnEveryFallback ==
    /\ urlParams.resolved =>
          \A name \in {"roomId", "password", "userId", "displayName", "deviceId",
                       "baseUrl", "lang", "analyticsID", "enableE2e", "fontScale",
                       "embed", "preload", "hideHeader", "hideScreensharing",
                       "allowIceFallback", "font"} :
              OnlyInPageQuery(name) <=> name \in warned
    /\ roomIdentifier.resolved =>
          \A name \in {"roomId", "viaServers"} :
              OnlyInPageQuery(name) => name \in warned

\* Everything of the hash before its first "?", or all of it if it has none.
BeforeQuery(h) ==
    LET marks == {i \in 1..Len(h) : h[i] = "?"}
    IN IF marks = {} THEN h
       ELSE SubSeq(h, 1, (CHOOSE i \in marks : \A j \in marks : i <= j) - 1)

\* The pairs of the hash's query as names and values.
HashEntries == [i \in 1..Len(location.hashPairs) |->
                   << <<location.hashPairs[i].name>>, location.hashPairs[i].value >>]

\* C16: editFragmentQuery returns the original hash prefix (everything before
\* the first "?", or the whole hash when it has none) followed by "?" and the
\* serialized transformed parameters, so the prefix is never lost; the
\* transform of AppSelectionModal forces appPrompt=false and confineToRoom=true.
C16_EditKeepsHashPrefix ==
    editedHash.resolved =>
        LET prefix == BeforeQuery(hash)
            result == editedHash.hash
            params == URLSearchParams(SubSeq(result, Len(prefix) + 1, Len(result)))
        IN /\ Len(result) > Len(prefix)
           /\ SubSeq(result, 1, Len(prefix) + 1) = prefix \o <<"?">>
           /\ editedHash.edit = "none" => params = HashEntries
           /\ editedHash.edit = "appSelection" =>
                 /\ getAll(params, "appPrompt") = << <<"false">> >>
                 /\ getAll(params, "confineToRoom") = << <<"true">> >>
                 /\ SelectSeq(params, LAMBDA e : e[1] \notin {<<"appPrompt">>, <<"confineToRoom">>})
                      = SelectSeq(HashEntries, LAMBDA e : e[1] # <<"confineToRoom">>)

\* C17: in the left state (not joined, left set, no encryption gate active) the
\* view renders the post-call screen exactly when the user is passwordless, or
\* analytics is enabled and the app is not embedded, or the leave carried an
\* error; in every other left state it renders nothing.
C17_PostCallScreenOrNothing ==
    ( /\ mounted
      /\ left
      /\ rtc \notin {"joined", "leaving"}
      /\ ~NoKeyGate
      /\ ~e2ee.isRoomE2EE \/ (env.e2eeSupported /\ e2ee.e2eeEnabled) )
    => IF \/ props.isPasswordlessUser
          \/ (env.analyticsEnabled /\ ~env.widget)
          \/ leaveError = "ConnectionLostError"
       THEN Presentation = "CallEndedView"
       ELSE Presentation = "null"

C17_Witness ==
    /\ mounted
    /\ left
    /\ rtc = "out"
    /\ Presentation = "CallEndedView"
    /\ ~props.isPasswordlessUser
    /\ env.widget
    /\ env.analyticsEnabled
    /\ leaveError = "ConnectionLostError"

\* A leave that has run to its end navigated home.
NavigatedHome(i) == \E j \in 1..Len(leaves[i].did) : leaves[i].did[j] = "history.push(/)"

\* C18 as stated: onLeave navigates to the home screen exactly when the app is
\* not embedded, not confined to a single room and analytics is not active.
C18_NavigatesHomeUnlessEmbedded ==
    \A i \in 1..Len(leaves) :
        leaves[i].pc = "done" =>
            (NavigatedHome(i) <=>
                (~env.widget /\ ~props.confineToRoom /\ ~env.analyticsEnabled))

\* C18 amended: onLeave navigates to the home screen exactly when the user is
\* not passwordless, the view is not confined to a single room and analytics is
\* not enabled, embedded or not; embedded, only once its timer has fired.
C18_NavigatesHomeUnlessPasswordless ==
    \A i \in 1..Len(leaves) :
        /\ leaves[i].pc = "done" =>
              (NavigatedHome(i) <=>
                  ( /\ ~props.isPasswordlessUser
                    /\ ~props.confineToRoom
                    /\ ~env.analyticsEnabled ))
        /\ leaves[i].pc # "done" => ~NavigatedHome(i)

C18_Witness ==
    \E i \in 1..Len(leaves) :
        /\ leaves[i].pc = "done"
        /\ NavigatedHome(i)
        /\ env.widget
        /\ ~props.isPasswordlessUser

\* The view is in skip-lobby mode with preload set and a widget host present.
PreloadMode(p) == p.skipLobby /\ p.preload /\ env.widget

\* C19: in skip-lobby mode with preload and a widget host, the view enters the
\* session only when it handles a JoinCall of the host (or, once the call has
\* been left, when the user reconnects on the post-call screen), so a session
\* never entered before is not entered until a JoinCall arrives; every JoinCall
\* handled is answered with a reply; and onJoin is registered exactly while the
\* view is mounted in that mode, so it is removed on unmount and on a change of
\* the inputs.
C19_PreloadDefersJoinUntilJoinCall ==
    [][ /\ ( /\ PreloadMode(props) /\ PreloadMode(props')
             /\ rtc = "out" /\ rtc' # "out" )
           => \/ /\ Len(hostActions') = Len(hostActions) + 1
                 /\ hostActions'[Len(hostActions')].action = "JoinCall"
              \/ /\ leaves # <<>>
                 /\ left /\ ~left'
        /\ \A i \in 1..Len(hostActions') :
              hostActions'[i].action = "JoinCall" =>
                  /\ \E j \in 1..Len(hostActions'[i].did) :
                        hostActions'[i].did[j] = "reply JoinCall"
                  /\ Len(SelectSeq(hostLog', LAMBDA e : e = "reply JoinCall"))
                        = JoinCalls(hostActions')
        /\ listeners'.JoinCall = IF mounted' /\ PreloadMode(props') THEN 1 ELSE 0
      ]_vars

C19_Witness ==
    /\ mounted
    /\ PreloadMode(props)
    /\ rtc = "joined"
    /\ JoinCalls(hostActions) = 1
    /\ hostLog = <<"setAlwaysOnScreen(true)", "reply JoinCall">>
    /\ leaves = <<>>

\* C20: while embedded and joined the view has exactly one HangupCall listener
\* and never more than one; a hangup of the host is handled by leaving the
\* session and then replying to the host; the listener is removed as it runs,
\* and registered again only by a render in which the view has become joined
\* or has been mounted, so it runs at most once per period of being joined;
\* and no listener is left when the view is unmounted or no longer joined.
C20_HangupListenerOncePerJoin ==
    [][ /\ listeners'.HangupCall <= 1
        /\ (mounted' /\ env.widget /\ rtc' = "joined") => listeners'.HangupCall = 1
        /\ ~(mounted' /\ env.widget /\ rtc' \in {"joined", "leaving"})
              => listeners'.HangupCall = 0
        /\ ( /\ Len(hostActions') = Len(hostActions) + 1
             /\ hostActions'[Len(hostActions')].action = "HangupCall" )
           => /\ listeners.HangupCall = 1
              /\ listeners'.HangupCall = 0
              /\ rtc \in {"joined", "leaving"}
              /\ rtc' = "leaving"
              /\ LET did == hostActions'[Len(hostActions')].did
                 IN /\ Cardinality(IndicesOf(did, "leaveRTCSession")) = 1
                    /\ Cardinality(IndicesOf(did, "reply HangupCall")) = 1
                    /\ Before(did, "leaveRTCSession", "reply HangupCall")
        /\ listeners'.HangupCall > listeners.HangupCall
              => \/ ~mounted /\ mounted'
                 \/ rtc = "joining" /\ rtc' = "joined"
      ]_vars

C20_Witness ==
    /\ mounted
    /\ env.widget
    /\ rtc = "leaving"
    /\ listeners.HangupCall = 0
    /\ hostActions # <<>>
    /\ hostActions[Len(hostActions)].action = "HangupCall"
    /\ hostLog[Len(hostLog)] = "setAlwaysOnScreen(false)"

\* C25 as stated: the room-id deprecation warning is logged whenever the URL
\* carries a roomId parameter at all, accepted as valid or not.
C25_WarnsWheneverRoomIdSupplied ==
    roomIdentifier.resolved =>
        (CarriedValue("roomId") # <<"<null>">> => "Room loaded by room ID" \in warned)

\* C25 amended: the room-id deprecation warning is logged exactly when the
\* roomId the URL carries is accepted, that is when it begins with "!"; a
\* roomId that is carried but dropped, the empty one included, logs none.
C25_WarnsOnlyForAcceptedRoomId ==
    roomIdentifier.resolved =>
        LET supplied == CarriedValue("roomId")
        IN /\ "Room loaded by room ID" \in warned
                 <=> (supplied # <<>> /\ supplied[1] = "!")
           /\ "Room loaded by room ID" \in warned
                 <=> roomIdentifier.roomId # <<"<null>">>

C25_Witness ==
    /\ roomIdentifier.resolved
    /\ Named(location.hashPairs, "roomId") # {}
    /\ FirstValue(location.hashPairs, "roomId") = <<"!", "abc">>
    /\ Named(location.searchPairs, "roomId") # {}
    /\ FirstValue(location.searchPairs, "roomId") = <<"abc">>
    /\ warned = {"Room loaded by room ID"}

\* C26: the fontScale resolved is absent or a positive number: no fontScale
\* parameter resolves to zero or to a negative number.
C26_FontScalePositiveOrAbsent ==
    urlParams.resolved =>
        \/ urlParams.fontScale = [null |-> TRUE]
        \/ /\ "tenths" \in DOMAIN urlParams.fontScale
           /\ urlParams.fontScale.tenths > 0

\* The room run r has joined or created.
RoomOfRun(r) ==
    IF runs[r].createRoomCalls > 0
    THEN [created |-> r]
    ELSE [joined |-> runs[r].deps.roomIdOrAlias]

\* C28: a run obtains the session handle, and the hook reports loaded, only
\* once the wait for the readiness of the room the run joined or created has
\* resolved, and the session is the one of that room.
C28_LoadedOnlyWhenRoomReady ==
    /\ \A r \in RunIds :
          /\ runs[r].rtcSession # [none |-> "rtcSession"] <=> runs[r].outcome = "loaded"
          /\ runs[r].outcome = "loaded" =>
                /\ runs[r].ready
                /\ runs[r].rtcSession = [client |-> runs[r].deps.client,
                                         room |-> RoomOfRun(r)]
    /\ state.kind = "loaded" =>
          \E r \in RunIds :
              /\ runs[r].outcome = "loaded"
              /\ runs[r].ready
              /\ state.rtcSession = runs[r].rtcSession

C28_Witness ==
    \E r \in RunIds :
        /\ runs[r].outcome = "loaded"
        /\ runs[r].ready
        /\ runs[r].rtcSession.room = [created |-> r]
        /\ state.kind = "loaded"
        /\ state.rtcSession.room = [created |-> r]
        /\ \E q \in RunIds : runs[q].pc = "waitReadyJoined" /\ ~runs[q].ready

\* C29: joinRoom is issued only in a step in which the run finds the client
\* syncing, and createRoom only after joinRoom; a run that finds the client
\* not syncing subscribes to the sync notifications and issues nothing; a
\* subscribed run stays subscribed through notifications of another state, and
\* at the first notification of the syncing state it issues joinRoom and is
\* no longer subscribed.
C29_NoRequestBeforeSyncing ==
    [][ /\ \A r \in 1..Len(runs') :
              LET new == r > Len(runs)
                  before == IF new THEN 0 ELSE runs[r].joinRoomCalls
                  c == runs'[r].deps.client
              IN /\ runs'[r].joinRoomCalls > before => syncState'[c] = "SYNCING"
                 /\ runs'[r].createRoomCalls > 0 => runs'[r].joinRoomCalls > 0
                 /\ runs'[r].joinRoomCalls <= 1
                 /\ (new /\ syncState[c] # "SYNCING")
                       => r \in onSync' /\ runs'[r].joinRoomCalls = 0
                 /\ (new /\ syncState[c] = "SYNCING")
                       => r \notin onSync' /\ runs'[r].joinRoomCalls = 1
                 /\ (~new /\ r \in onSync)
                       => IF syncState'[c] = "SYNCING" /\ syncState' # syncState
                          THEN r \notin onSync' /\ runs'[r].joinRoomCalls = 1
                          ELSE r \in onSync' /\ runs'[r].joinRoomCalls = 0
                 /\ r \in onSync' => runs'[r].joinRoomCalls = 0
      ]_vars

C29_Witness ==
    /\ Len(runs) = 2
    /\ onSync = {2}
    /\ runs[2].pc = "waitSync"
    /\ runs[2].joinRoomCalls = 0
    /\ syncState[runs[2].deps.client] = "PREPARED"
    /\ runs[1].joinRoomCalls = 1
    /\ runs[1].pc = "waitReadyJoined"

\* C30: every onLeave sets the leave error and the left flag, once each,
\* before it leaves the session and before anything it sends to the host; the
\* step in which onLeave is called leaves the view with left set and the leave
\* error it was handed, and has sent the host nothing yet.
C30_LeftRecordedBeforeLeaving ==
    [][ /\ \A i \in 1..Len(leaves') :
              LET did == leaves'[i].did
              IN /\ Cardinality(IndicesOf(did, "setLeaveError")) = 1
                 /\ Cardinality(IndicesOf(did, "setLeft(true)")) = 1
                 /\ Cardinality(IndicesOf(did, "leaveRTCSession")) = 1
                 /\ \A e \in {"leaveRTCSession", "setAlwaysOnScreen(false)",
                               "send HangupCall"} :
                       /\ Before(did, "setLeaveError", e)
                       /\ Before(did, "setLeft(true)", e)
        /\ Len(leaves') > Len(leaves) =>
              /\ left'
              /\ leaveError' \in {"undefined", "ConnectionLostError"}
              /\ hostLog' = hostLog
              /\ rtc = "joined" => rtc' = "leaving"
      ]_vars

C30_Witness ==
    \E i \in 1..Len(leaves) :
        /\ env.widget
        /\ leaves[i].pc = "done"
        /\ left
        /\ leaveError = "ConnectionLostError"
        /\ hostLog # <<>>
        /\ hostLog[Len(hostLog)] = "send HangupCall"
        /\ rtc = "out"

\* C24: whenever GroupCallView renders the Lobby while the app runs embedded,
\* the Lobby's footer has no link home.
C24_NoHomeLinkWhenEmbedded ==
    (mounted /\ Presentation = "LobbyView" /\ env.widget)
        => LobbyFooter(LobbyViewProps) = <<>>


(***************************************************************************)
(*                  Properties of participatingMembers                     *)
(***************************************************************************)

\* The position of a user's first membership in the session's list.
FirstMembershipOf(userId) ==
    CHOOSE i \in 1..Len(sessionMemberships) :
        /\ sessionMemberships[i].member.userId = userId
        /\ \A j \in 1..(i - 1) : sessionMemberships[j].member.userId # userId

\* C21: the participant list holds exactly the users that have a membership
\* in the session, each of them once however many devices they joined with,
\* in the order of their first membership.
C21_OneMemberPerUser ==
    participatingMembers.rendered =>
        LET members == participatingMembers.members
        IN /\ {members[i].userId : i \in 1..Len(members)}
                = {sessionMemberships[i].member.userId : i \in 1..Len(sessionMemberships)}
           /\ \A i, j \in 1..Len(members) :
                i # j => members[i].userId # members[j].userId
           /\ \A i, j \in 1..Len(members) :
                i < j => FirstMembershipOf(members[i].userId)
                            < FirstMembershipOf(members[j].userId)

\* A user with two devices around another user: three memberships, two members.
C21_Witness ==
    /\ participatingMembers.rendered
    /\ Len(sessionMemberships) = 3
    /\ sessionMemberships[1].member.userId = sessionMemberships[3].member.userId
    /\ sessionMemberships[1].deviceId # sessionMemberships[3].deviceId
    /\ sessionMemberships[2].member.userId # sessionMemberships[1].member.userId
    /\ Len(participatingMembers.members) = 2

(***************************************************************************)
(*                        Properties of CallList                           *)
(***************************************************************************)

\* The room id a tile shows: the first CallList hands the tile the room id,
\* the second the room.
RoomIdOfTile(tile) ==
    IF "roomId" \in DOMAIN tile THEN tile.roomId ELSE tile.room.roomId

\* C23: either CallList renders one tile per entry of the rooms it was given,
\* in their order, followed by two spacers if there are more than three
\* entries and by nothing otherwise.
C23_TilesAndFillers ==
    callList.rendered =>
        LET children == callList.children
            tiles == SelectSeq(children, LAMBDA c : c.element = "CallTile")
            fillers == SelectSeq(children, LAMBDA c : c.element = "div")
        IN /\ Len(tiles) = Len(rooms)
           /\ \A i \in 1..Len(tiles) :
                /\ RoomIdOfTile(tiles[i]) = rooms[i].room.roomId
                /\ tiles[i].name = rooms[i].roomName
           /\ children = tiles \o fillers
           /\ Len(fillers) = IF Len(rooms) > 3 THEN 2 ELSE 0
           /\ \A i \in 1..Len(fillers) : fillers[i] = callTileSpacer

\* A list of three rooms grew to four: four tiles and the two spacers.
C23_Witness ==
    /\ callList.rendered
    /\ Len(rooms) = 4
    /\ Len(callList.children) = 6
    /\ callList.children[4].element = "CallTile"
    /\ callList.children[5] = callTileSpacer

(***************************************************************************)
(*                        Properties of ErrorView                          *)
(***************************************************************************)

\* The calls of one sink with the error of the given id.
ReportsOf(sink, id) ==
    {j \in 1..Len(reported) : reported[j].sink = sink /\ reported[j].error.id = id}

\* C27: every error object ErrorView was given has been passed exactly once
\* to logger.error and exactly once to Sentry.captureException, however many
\* times ErrorView rendered with it, and nothing else was reported.
C27_ReportedOncePerInstance ==
    /\ \A id \in 1..created :
        /\ Cardinality(ReportsOf("logger.error", id)) = 1
        /\ Cardinality(ReportsOf("Sentry.captureException", id)) = 1
    /\ Len(reported) = 2 * created

\* Four renders with two error objects: two of the renders were given the
\* error of the render before.
C27_Witness ==
    /\ errorView.mounted
    /\ errorView.renders = 4
    /\ created = 2
    /\ Len(reported) = 4


(***************************************************************************)
(*                Further properties of GroupCallView                      *)
(***************************************************************************)

\* One of the three encryption gates of lines 300-326 holds.
EncryptionGate ==
    Presentation \in {"ErrorView:NoE2EEKey", "IncompatibleBrowser", "ErrorView:EnableE2EE"}

\* C34: no step in which the session is entered (enterRTCSession takes it
\* from out to joining) starts in a state where an encryption gate holds.
C34_NoEnterWhileGated ==
    [][(rtc = "out" /\ rtc' = "joining") => ~EncryptionGate]_vars

\* C35: in a mount in which the user is joined, or has left a call with
\* onLeave, the next render does not show the Lobby View.
C35_NoLobbyAfterJoined ==
    [][(mounted /\ mounted' /\ (isJoined \/ left)) => Presentation' # "LobbyView"]_vars

\* C36: a view that is not embedded, is in the left state and renders nothing
\* has had its last onLeave navigate home.
C36_BlankOnlyAfterNavigation ==
    (/\ mounted
     /\ left
     /\ ~env.widget
     /\ Presentation = "null")
        => /\ Len(leaves) > 0
           /\ \E j \in 1..Len(leaves[Len(leaves)].did) :
                leaves[Len(leaves)].did[j] = "history.push(/)"

\* C37: whenever the active call is rendered and the room is encrypted, the
\* encryption configuration handed to it carries a shared key.
C37_ActiveCallHasKey ==
    (mounted /\ Presentation = "ActiveCall" /\ e2ee.isRoomE2EE)
        => /\ "sharedKey" \in DOMAIN e2eeConfig
           /\ e2eeConfig.sharedKey # "undefined"

\* The active call of an encrypted room, after the key resolved during the call.
C37_Witness ==
    /\ mounted
    /\ Presentation = "ActiveCall"
    /\ e2ee.isRoomE2EE
    /\ e2eeConfig = [sharedKey |-> "key"]
    /\ rtc = "joined"


(***************************************************************************)
(*                Further properties of useActiveFocus                     *)
(***************************************************************************)

\* The first focus of the session's oldest membership, undefined without one.
FocusOfOldest ==
    IF Len(memberships) = 0 THEN [undefined |-> TRUE]
    ELSE IF OldestOf(memberships).foci = <<>> THEN [undefined |-> TRUE]
    ELSE Head(OldestOf(memberships).foci)

\* C33: after a render that follows the last notification, the focus the hook
\* returns is structurally equal to the first focus of the session's oldest
\* membership.
C33_PublishedFocusIsCurrent ==
    focusOp = "render" => SameFocus(activeFocus, FocusOfOldest)


(***************************************************************************)
(*               Further properties of useLoadGroupCall                    *)
(***************************************************************************)

\* What run r passed to setState when it settled.
PublishedBy(r) ==
    IF runs[r].outcome = "loaded"
    THEN Loaded(runs[r].rtcSession)
    ELSE Failed(runs[r].error)

\* C32: once every run of the effect has settled and no run is due, the
\* status is what the run started last passed to setState.
C32_LastRunWins ==
    (/\ ~effectDue
     /\ Len(runs) > 0
     /\ \A r \in RunIds : runs[r].pc = "done")
        => state = PublishedBy(Len(runs))

\* C40: under FairLoad the status eventually is loaded or failed.
C40_EventuallyNotLoading ==
    <>(state.kind \in {"loaded", "failed"})

\* A run that waited for the client to sync, joined, was told the room does
\* not exist, created it, and loaded.
C40_Witness ==
    /\ state.kind = "loaded"
    /\ Len(runs) = 1
    /\ runs[1].pc = "done"
    /\ runs[1].createRoomCalls = 1
    /\ runs[1].joinRoomCalls = 1
    /\ syncState[runs[1].deps.client] = "SYNCING"


(***************************************************************************)
(*            Further properties of getRoomIdentifierFromUrl               *)
(***************************************************************************)

\* A string ends with the given suffix.
EndsWith(str, suffix) ==
    /\ Len(str) >= Len(suffix)
    /\ SubSeq(str, Len(str) - Len(suffix) + 1, Len(str)) = suffix

\* C38: the alias holds nothing of the hash's embedded query: no "?", no "="
\* and no "&", and when the hash names a room without a server before its
\* query, the alias ends with the default server name.
C38_AliasWithoutQuery ==
    roomIdentifier.resolved =>
        LET roomAlias == roomIdentifier.roomAlias
        IN /\ \A i \in 1..Len(roomAlias) : roomAlias[i] \notin {"?", "=", "&"}
           /\ (~aliasFromPath(hash) /\ ~includes(location.hashPrefix, ":"))
                => EndsWith(roomAlias, <<":">> \o defaultServerName)


(***************************************************************************)
(*                  Further properties of ErrorView                        *)
(***************************************************************************)

\* How many times Sentry.captureException has been called.
CapturedExceptions ==
    Cardinality({j \in 1..Len(reported) : reported[j].sink = "Sentry.captureException"})

\* C39: a render of the error view for the condition it was already rendered
\* for (the same message) reports nothing more to Sentry.
C39_OneReportPerCondition ==
    [][(/\ errorView.mounted
        /\ errorView'.mounted
        /\ errorView'.error.message = errorView.error.message)
            => CapturedExceptions' = CapturedExceptions]_vars


(***************************************************************************)
(*                Properties of the skip-lobby effect                      *)
(***************************************************************************)

\* C31: every call of enterRTCSession in skip-lobby mode found the default
\* device setup of its join finished, with both mute states applied.
C31_SetupBeforeEnter ==
    \A i \in 1..Len(entered) :
        /\ entered[i].setupPc = "done"
        /\ entered[i].audio # "unset"
        /\ entered[i].video # "unset"

====
